-------------------------- MODULE ControlPlaneProofs --------------------------
(***************************************************************************)
(* Theorems about the control plane and six of its parts - the scan for    *)
(* silent agents, the settings of a tenant, uploaded evidence, start-up,   *)
(* the tasks that are let in, and what an investigation is shown of the    *)
(* events - for any number of agents, threads, hunts, uploads, servers,    *)
(* processes and events.  Of the seventh, the cases, the proofs are in     *)
(* CasesProofs.                                                            *)
(*                                                                         *)
(* Each part has an inductive invariant, of what a handler has read and    *)
(* not yet written; the composition takes the theorems from the parts.     *)
(***************************************************************************)
EXTENDS ControlPlane, CasesProofs, TLAPS

(* AgentHealth *)

Gap == Agents \X Nat
Scan == [pc : {"idle", "again", "mark", "alert"}, before : Nat,
         found : SUBSET Gap, mark : SUBSET Agents]

HealthTypes ==
    /\ agents \in [Agents -> [seen : Nat,
                              status : {"enrolled", "online", "offline", "revoked"}]]
    /\ scan \in [Scanners -> Scan]
    /\ offline \in SUBSET Gap /\ time \in Nat
    /\ beats \in [Agents -> SUBSET Nat]

\* last_seen is the latest heartbeat, and none is in the future.
SeenLast ==
    \A a \in Agents : /\ agents[a].seen <= time
                      /\ \A t \in beats[a] : t <= agents[a].seen

\* An agent that is stale now was stale, with the same last_seen, at the scan's
\* first reading; and at its second, unless it reported after it.
FirstReading(s) ==
    scan[s].pc = "again" => \A a \in Agents : agents[a].seen < scan[s].before =>
        <<a, agents[a].seen>> \in scan[s].found
SecondReading(s) ==
    scan[s].pc = "mark" => \A a \in scan[s].mark :
        a \in overtaken \/ <<a, agents[a].seen>> \in scan[s].found
Readings ==
    \A s \in Scanners :
        scan[s].before <= time /\ FirstReading(s) /\ SecondReading(s)

\* What has been found, and is on its way into the table or there, is a gap.
IsGap(g) ==
    /\ g[2] + StaleAfter + 1 <= time
    /\ \A t \in beats[g[1]] : t > g[2] => t >= g[2] + StaleAfter + 1
Found == offline \cup UNION {scan[s].found : s \in Scanners}
GapsAreReal == \A g \in Found : IsGap(g)

\* An alert for an agent that is offline is stored, or is held by the very scan
\* that marked it.
Explained ==
    \A a \in Agents \ (overtaken \cup dropped) :
        agents[a].status = "offline" =>
           \/ <<a, agents[a].seen>> \in offline
           \/ \E s \in Scanners : /\ scan[s].pc = "alert" /\ a \in scan[s].mark
                                  /\ <<a, agents[a].seen>> \in scan[s].found

HealthInv == HealthTypes /\ SeenLast /\ Readings /\ GapsAreReal /\ Explained

\* The rows, the scans and the history keep their types.
LEMMA HealthTypesStep == HealthInv /\ [HealthNext]_healthVars => HealthTypes'
<1> SUFFICES ASSUME HealthInv, [HealthNext]_healthVars PROVE HealthTypes'
  OBVIOUS
<1>same. CASE UNCHANGED <<agents, scan, offline, time, beats>>
  BY <1>same DEF HealthInv, HealthTypes
<1>1. ASSUME Tick PROVE HealthTypes'
  BY <1>1 DEF Tick, HealthInv, HealthTypes
<1>2. ASSUME NEW a \in Agents, Heartbeat(a) PROVE HealthTypes'
  BY <1>2 DEF Heartbeat, HealthInv, HealthTypes
<1>3. ASSUME NEW a \in Agents, RevokeAgent(a) PROVE HealthTypes'
  BY <1>3 DEF RevokeAgent, HealthInv, HealthTypes
<1>4. ASSUME NEW s \in Scanners, FindStale(s) PROVE HealthTypes'
  BY <1>4, HealthAssumption
  DEF FindStale, Stale, HealthInv, HealthTypes, Scan, Gap
<1>5. ASSUME NEW s \in Scanners, FindAgain(s) PROVE HealthTypes'
  BY <1>5 DEF FindAgain, Stale, HealthInv, HealthTypes, Scan
<1>6. ASSUME NEW s \in Scanners, MarkOffline(s) PROVE HealthTypes'
  <2> DEFINE Row == [seen : Nat,
                     status : {"enrolled", "online", "offline", "revoked"}]
  <2>1. \A a \in Agents : agents[a] \in Row
    BY DEF HealthInv, HealthTypes
  <2>2. \A r \in Row : [r EXCEPT !.status = "offline"] \in Row
    OBVIOUS
  <2>3. agents' = [a \in Agents |-> IF a \in Marked(s)
                      THEN [agents[a] EXCEPT !.status = "offline"] ELSE agents[a]]
    BY <1>6 DEF MarkOffline
  <2> HIDE DEF Row
  <2>4. agents' \in [Agents -> Row]
    BY <2>1, <2>2, <2>3
  <2>5. scan' \in [Scanners -> Scan]
    BY <1>6 DEF MarkOffline, HealthInv, HealthTypes, Scan
  <2>6. UNCHANGED <<offline, time, beats>>
    BY <1>6 DEF MarkOffline
  <2> QED
    BY <2>4, <2>5, <2>6 DEF HealthInv, HealthTypes, Row
<1>7. ASSUME NEW s \in Scanners, RaiseOffline(s) PROVE HealthTypes'
  BY <1>7 DEF RaiseOffline, NoScan, HealthInv, HealthTypes, Scan
<1>8. ASSUME NEW s \in Scanners, ScanFails(s) PROVE HealthTypes'
  BY <1>8 DEF ScanFails, NoScan, HealthInv, HealthTypes, Scan
<1>9. CASE UNCHANGED healthVars
  BY <1>9, <1>same DEF healthVars
<1> QED
  BY <1>1, <1>2, <1>3, <1>4, <1>5, <1>6, <1>7, <1>8, <1>9 DEF HealthNext

\* An agent is seen when it reports.
LEMMA SeenLastStep == HealthInv /\ [HealthNext]_healthVars => SeenLast'
<1> SUFFICES ASSUME HealthInv, [HealthNext]_healthVars PROVE SeenLast'
  OBVIOUS
<1>same. CASE UNCHANGED <<agents, time, beats>>
  BY <1>same DEF HealthInv, SeenLast
<1>1. ASSUME Tick PROVE SeenLast'
  BY <1>1 DEF Tick, HealthInv, HealthTypes, SeenLast
<1>2. ASSUME NEW a \in Agents, Heartbeat(a) PROVE SeenLast'
  BY <1>2 DEF Heartbeat, HealthInv, HealthTypes, SeenLast
<1>3. ASSUME NEW a \in Agents, RevokeAgent(a) PROVE SeenLast'
  BY <1>3 DEF RevokeAgent, HealthInv, SeenLast
<1>4. ASSUME NEW s \in Scanners, FindStale(s) PROVE SeenLast'
  BY <1>4, <1>same DEF FindStale
<1>5. ASSUME NEW s \in Scanners, FindAgain(s) PROVE SeenLast'
  BY <1>5, <1>same DEF FindAgain
<1>6. ASSUME NEW s \in Scanners, MarkOffline(s) PROVE SeenLast'
  BY <1>6 DEF MarkOffline, HealthInv, SeenLast
<1>7. ASSUME NEW s \in Scanners, RaiseOffline(s) PROVE SeenLast'
  BY <1>7, <1>same DEF RaiseOffline
<1>8. ASSUME NEW s \in Scanners, ScanFails(s) PROVE SeenLast'
  BY <1>8, <1>same DEF ScanFails
<1>9. CASE UNCHANGED healthVars
  BY <1>9, <1>same DEF healthVars
<1> QED
  BY <1>1, <1>2, <1>3, <1>4, <1>5, <1>6, <1>7, <1>8, <1>9 DEF HealthNext

\* A heartbeat moves last_seen past the limit of every scan under way.
LEMMA ReadingsStep == HealthInv /\ [HealthNext]_healthVars => Readings'
<1> SUFFICES ASSUME HealthInv, [HealthNext]_healthVars PROVE Readings'
  OBVIOUS
<1>same. CASE UNCHANGED <<agents, time, scan, overtaken>>
  BY <1>same DEF HealthInv, Readings, FirstReading, SecondReading
<1>1. ASSUME Tick PROVE Readings'
  BY <1>1
  DEF Tick, HealthInv, HealthTypes, Readings, FirstReading, SecondReading,
      Scan
<1>2. ASSUME NEW a \in Agents, Heartbeat(a) PROVE Readings'
  BY <1>2
  DEF Heartbeat, HealthInv, HealthTypes, Readings, FirstReading,
      SecondReading, Scan
<1>3. ASSUME NEW a \in Agents, RevokeAgent(a) PROVE Readings'
  BY <1>3 DEF RevokeAgent, HealthInv, Readings, FirstReading, SecondReading
<1>4. ASSUME NEW s \in Scanners, FindStale(s) PROVE Readings'
  BY <1>4, HealthAssumption
  DEF FindStale, Stale, HealthInv, HealthTypes, Readings, FirstReading,
      SecondReading
<1>5. ASSUME NEW s \in Scanners, FindAgain(s) PROVE Readings'
  BY <1>5
  DEF FindAgain, Stale, HealthInv, HealthTypes, Readings, FirstReading,
      SecondReading
<1>6. ASSUME NEW s \in Scanners, MarkOffline(s) PROVE Readings'
  BY <1>6
  DEF MarkOffline, HealthInv, HealthTypes, Readings, FirstReading,
      SecondReading, Scan
<1>7. ASSUME NEW s \in Scanners, RaiseOffline(s) PROVE Readings'
  BY <1>7
  DEF RaiseOffline, NoScan, HealthInv, HealthTypes, Readings, FirstReading,
      SecondReading
<1>8. ASSUME NEW s \in Scanners, ScanFails(s) PROVE Readings'
  BY <1>8
  DEF ScanFails, NoScan, HealthInv, HealthTypes, Readings, FirstReading,
      SecondReading
<1>9. CASE UNCHANGED healthVars
  BY <1>9, <1>same DEF healthVars
<1> QED
  BY <1>1, <1>2, <1>3, <1>4, <1>5, <1>6, <1>7, <1>8, <1>9 DEF HealthNext

\* A heartbeat comes after every gap that has been found.
LEMMA GapsStep == HealthInv /\ [HealthNext]_healthVars => GapsAreReal'
<1> SUFFICES ASSUME HealthInv, [HealthNext]_healthVars PROVE GapsAreReal'
  OBVIOUS
<1>same. CASE UNCHANGED <<offline, scan, time, beats>>
  BY <1>same DEF HealthInv, GapsAreReal, Found, IsGap
<1>1. ASSUME Tick PROVE GapsAreReal'
  BY <1>1, HealthAssumption
  DEF Tick, HealthInv, HealthTypes, GapsAreReal, IsGap, Found, Scan, Gap
<1>2. ASSUME NEW a \in Agents, Heartbeat(a) PROVE GapsAreReal'
  BY <1>2 DEF Heartbeat, HealthInv, GapsAreReal, IsGap, Found, Scan
<1>3. ASSUME NEW a \in Agents, RevokeAgent(a) PROVE GapsAreReal'
  BY <1>3, <1>same DEF RevokeAgent
<1>4. ASSUME NEW s \in Scanners, FindStale(s) PROVE GapsAreReal'
  BY <1>4, HealthAssumption
  DEF FindStale, Stale, HealthInv, HealthTypes, SeenLast, GapsAreReal, IsGap,
      Found
<1>5. ASSUME NEW s \in Scanners, FindAgain(s) PROVE GapsAreReal'
  BY <1>5 DEF FindAgain, HealthInv, HealthTypes, GapsAreReal, IsGap, Found
<1>6. ASSUME NEW s \in Scanners, MarkOffline(s) PROVE GapsAreReal'
  BY <1>6 DEF MarkOffline, HealthInv, GapsAreReal, IsGap, Found
<1>7. ASSUME NEW s \in Scanners, RaiseOffline(s) PROVE GapsAreReal'
  BY <1>7 DEF RaiseOffline, NoScan, HealthInv, GapsAreReal, IsGap, Found
<1>8. ASSUME NEW s \in Scanners, ScanFails(s) PROVE GapsAreReal'
  BY <1>8 DEF ScanFails, NoScan, HealthInv, GapsAreReal, IsGap, Found
<1>9. CASE UNCHANGED healthVars
  BY <1>9, <1>same DEF healthVars
<1> QED
  BY <1>1, <1>2, <1>3, <1>4, <1>5, <1>6, <1>7, <1>8, <1>9 DEF HealthNext

\* A scan that marks an agent found its last_seen, or was overtaken.
LEMMA ExplainedStep == HealthInv /\ [HealthNext]_healthVars => Explained'
<1> SUFFICES ASSUME HealthInv, [HealthNext]_healthVars PROVE Explained'
  OBVIOUS
<1>same. CASE UNCHANGED <<agents, offline, scan, overtaken, dropped>>
  BY <1>same DEF HealthInv, Explained
<1>1. ASSUME Tick PROVE Explained'
  BY <1>1, <1>same DEF Tick
<1>2. ASSUME NEW a \in Agents, Heartbeat(a) PROVE Explained'
  BY <1>2 DEF Heartbeat, HealthInv, HealthTypes, Explained
<1>3. ASSUME NEW a \in Agents, RevokeAgent(a) PROVE Explained'
  BY <1>3 DEF RevokeAgent, HealthInv, Explained
<1>4. ASSUME NEW s \in Scanners, FindStale(s) PROVE Explained'
  BY <1>4 DEF FindStale, NoScan, HealthInv, Explained
<1>5. ASSUME NEW s \in Scanners, FindAgain(s) PROVE Explained'
  BY <1>5 DEF FindAgain, HealthInv, HealthTypes, Explained
<1>6. ASSUME NEW s \in Scanners, MarkOffline(s) PROVE Explained'
  BY <1>6
  DEF MarkOffline, Marked, HealthInv, HealthTypes, Explained, Readings,
      SecondReading
<1>7. ASSUME NEW s \in Scanners, RaiseOffline(s) PROVE Explained'
  BY <1>7 DEF RaiseOffline, HealthInv, Explained
<1>8. ASSUME NEW s \in Scanners, ScanFails(s) PROVE Explained'
  BY <1>8 DEF ScanFails, HealthInv, Explained
<1>9. CASE UNCHANGED healthVars
  BY <1>9, <1>same DEF healthVars
<1> QED
  BY <1>1, <1>2, <1>3, <1>4, <1>5, <1>6, <1>7, <1>8, <1>9 DEF HealthNext

\* No agent is offline at first.
LEMMA HealthStart == HealthInit => HealthInv
BY DEF HealthInit, HealthInv, HealthTypes, SeenLast, Readings, FirstReading,
    SecondReading, GapsAreReal, Found, Explained, NoScan, Scan

\* The property follows from the last two parts.
LEMMA OfflineFollows == HealthInv => OfflineIsExplained
BY DEF HealthInv, OfflineIsExplained, Explained, GapsAreReal, Found, IsGap

\* ... and so always.
LEMMA HealthInvariant == HealthSpec => []HealthInv
<1>1. HealthInv /\ [HealthNext]_healthVars => HealthInv'
  BY HealthTypesStep, SeenLastStep, ReadingsStep, GapsStep, ExplainedStep
  DEF HealthInv
<1>2. QED
  BY <1>1, HealthStart, PTL DEF HealthSpec

(* TenantSettings *)

Putting(w) == admin[w].pc = "put"
Updating(w, h) == admin[w].pc = "update" /\ admin[w].hunt = h

SettingsTypes ==
    /\ config.version \in Nat
    /\ puts \in Seq([version : Nat, body : Bodies])
    /\ hunts \in Seq([criteria : CriteriaSet, enabled : BOOLEAN])
    /\ wanted \in Seq(CriteriaSet) /\ Len(wanted) = Len(hunts)
    /\ huntRuns \in Seq([hunt : Nat, criteria : CriteriaSet])
    /\ DOMAIN admin = Admins

\* A handler that will write has what it will write.
AdminOK(w) ==
    /\ admin[w].pc \in {"idle", "put", "update", "run"}
    /\ Putting(w) => /\ admin[w].version \in Nat /\ admin[w].body \in Bodies
                     /\ admin[w].hunt = 0
    /\ admin[w].pc \in {"update", "run"} => admin[w].hunt \in HuntIds
    /\ admin[w].pc = "update" =>
          /\ admin[w].next \in CriteriaSet /\ Given(admin[w].next)
          /\ admin[w].enabled \in BOOLEAN \cup {Keep}
    /\ admin[w].pc = "run" =>
          admin[w].criteria \in CriteriaSet /\ Given(admin[w].criteria)
AdminsOK == \A w \in Admins : AdminOK(w)

\* One PUT at a time stores a version beyond the current one, which is the
\* latest.
PutsInOrder ==
    ~crossedPut =>
        /\ \A v, w \in Admins : Putting(v) /\ Putting(w) => v = w
        /\ \A w \in Admins : Putting(w) => admin[w].version > config.version
        /\ \A i \in DOMAIN puts : puts[i].version <= config.version
        /\ \A i, j \in DOMAIN puts : i < j => puts[i].version < puts[j].version

\* The one update of a hunt under way will write what was asked for.
UpdatesInOrder ==
    \A h \in HuntIds \ crossed :
        /\ \A v, w \in Admins : Updating(v, h) /\ Updating(w, h) => v = w
        /\ \A w \in Admins : Updating(w, h) => admin[w].next = wanted[h]

SettingsInv ==
    /\ SettingsTypes /\ AdminsOK
    /\ PutsInOrder /\ UpdatesInOrder /\ HuntsKeepACriterion

\* What is stored has its type.
LEMMA RowsTyped ==
    ASSUME SettingsTypes
    PROVE  /\ \A h \in HuntIds : /\ hunts[h].criteria \in CriteriaSet
                                 /\ hunts[h].enabled \in BOOLEAN
                                 /\ wanted[h] \in CriteriaSet
           /\ \A n \in DOMAIN puts : puts[n].version \in Nat
<1> DEFINE Hunt == [criteria : CriteriaSet, enabled : BOOLEAN]
           Put == [version : Nat, body : Bodies]
<1>1. hunts \in Seq(Hunt) /\ wanted \in Seq(CriteriaSet) /\ puts \in Seq(Put)
  BY DEF SettingsTypes
<1>2. \A r \in Hunt : r.criteria \in CriteriaSet /\ r.enabled \in BOOLEAN
  OBVIOUS
<1>3. \A r \in Put : r.version \in Nat
  OBVIOUS
<1>4. Len(wanted) = Len(hunts)
  BY DEF SettingsTypes
<1> HIDE DEF Hunt, Put
<1>5. \A h \in HuntIds : hunts[h] \in Hunt /\ wanted[h] \in CriteriaSet
  BY <1>1, <1>4 DEF HuntIds
<1>6. \A n \in DOMAIN puts : puts[n] \in Put
  BY <1>1
<1>7. QED
  BY <1>2, <1>3, <1>5, <1>6

\* What reading a hunt for an update does: the criteria it will write, and
\* those that are asked for now.
ReadsRow(w, h, i, e, next, aim) ==
    /\ Given(next)
    /\ hunts[h].criteria = wanted[h] => next = aim
    /\ wanted' = [wanted EXCEPT ![h] = aim]
    /\ admin' = [admin EXCEPT ![w] =
           [pc |-> "update", hunt |-> h, next |-> next,
            indicator |-> i, enabled |-> e]]

\* Every UpdateRead does that.
LEMMA UpdateReadShape ==
    ASSUME SettingsInv, NEW w \in Admins, NEW h \in HuntIds,
           NEW i \in Indicators \cup {NoCriterion, Keep},
           NEW q \in Queries \cup {NoCriterion, Keep},
           NEW e \in BOOLEAN \cup {Keep},
           UpdateRead(w, h, i, q, e)
    PROVE  \E next, aim \in CriteriaSet : ReadsRow(w, h, i, e, next, aim)
<1> DEFINE next == [indicator |-> Asked(i, hunts[h].criteria.indicator),
                    query |-> Asked(q, hunts[h].criteria.query)]
           aim == [indicator |-> Asked(i, wanted[h].indicator),
                     query |-> Asked(q, wanted[h].query)]
<1>1. hunts[h].criteria \in CriteriaSet /\ wanted[h] \in CriteriaSet
  BY RowsTyped DEF SettingsInv
<1>2. next \in CriteriaSet /\ aim \in CriteriaSet
  BY <1>1 DEF CriteriaSet, Asked
<1>3. /\ Given(next)
      /\ admin' = [admin EXCEPT ![w] =
             [pc |-> "update", hunt |-> h, next |-> next,
              indicator |-> i, enabled |-> e]]
  BY DEF UpdateRead
<1>4. wanted' = [wanted EXCEPT ![h] = aim]
  BY DEF UpdateRead
<1>5. hunts[h].criteria = wanted[h] => next = aim
  OBVIOUS
<1> HIDE DEF next, aim
<1>6. ReadsRow(w, h, i, e, next, aim)
  BY <1>3, <1>4, <1>5 DEF ReadsRow
<1>7. QED
  BY <1>2, <1>6
\* The rows keep their types.
LEMMA SettingsTypesStep ==
    SettingsInv /\ [SettingsNext]_settingsVars => SettingsTypes'
<1> SUFFICES ASSUME SettingsInv, [SettingsNext]_settingsVars
             PROVE  SettingsTypes'
  OBVIOUS
<1>same. CASE UNCHANGED <<config, puts, hunts, wanted, huntRuns, admin>>
  BY <1>same DEF SettingsInv, SettingsTypes
<1>1. ASSUME NEW w \in Admins, NEW b \in Bodies, NEW n \in 1..MaxVersion,
             PutRead(w, b, n)
      PROVE  SettingsTypes'
  BY <1>1 DEF PutRead, SettingsInv, SettingsTypes
<1>2. ASSUME NEW w \in Admins, PutWrite(w) PROVE SettingsTypes'
  BY <1>2 DEF PutWrite, SettingsInv, SettingsTypes, AdminsOK, AdminOK, Putting
<1>3. ASSUME NEW w \in Admins, NEW h \in HuntIds,
           NEW i \in Indicators \cup {NoCriterion, Keep},
           NEW q \in Queries \cup {NoCriterion, Keep},
           NEW e \in BOOLEAN \cup {Keep}, UpdateRead(w, h, i, q, e)
    PROVE  SettingsTypes'
  <2>0. PICK next, aim \in CriteriaSet : ReadsRow(w, h, i, e, next, aim)
    BY <1>3, UpdateReadShape
  <2>1. /\ Given(next)
        /\ hunts[h].criteria = wanted[h] => next = aim
        /\ wanted' = [wanted EXCEPT ![h] = aim]
        /\ admin' = [admin EXCEPT ![w] =
               [pc |-> "update", hunt |-> h, next |-> next,
                indicator |-> i, enabled |-> e]]
    BY <2>0 DEF ReadsRow
  <2>2. UNCHANGED <<config, puts, hunts, huntRuns>>
    BY <1>3 DEF UpdateRead
  <2>3. wanted' \in Seq(CriteriaSet) /\ Len(wanted') = Len(wanted)
    BY <2>1 DEF SettingsInv, SettingsTypes, HuntIds
  <2>4. QED
    BY <2>1, <2>2, <2>3 DEF SettingsInv, SettingsTypes
<1>4. ASSUME NEW w \in Admins, UpdateWrite(w) PROVE SettingsTypes'
  <2> DEFINE Hunt == [criteria : CriteriaSet, enabled : BOOLEAN]
             job == admin[w]
             new == [criteria |-> job.next,
                     enabled |-> Asked(job.enabled, hunts[job.hunt].enabled)]
  <2>1. /\ job.hunt \in DOMAIN hunts /\ job.next \in CriteriaSet
        /\ job.enabled \in BOOLEAN \cup {Keep}
    BY <1>4 DEF UpdateWrite, SettingsInv, AdminsOK, AdminOK, HuntIds
  <2>2. hunts \in Seq(Hunt)
    BY DEF SettingsInv, SettingsTypes
  <2>3. hunts[job.hunt].enabled \in BOOLEAN
    BY <2>1, RowsTyped DEF SettingsInv, HuntIds
  <2>4. Asked(job.enabled, hunts[job.hunt].enabled) \in BOOLEAN
    BY <2>1, <2>3, Zenon DEF Asked
  <2>5. new \in Hunt
    BY <2>1, <2>4
  <2>6. hunts' = [hunts EXCEPT ![job.hunt] = new]
    BY <1>4 DEF UpdateWrite, Criteria
  <2> HIDE DEF new, Hunt
  <2>7. hunts' \in Seq(Hunt) /\ Len(hunts') = Len(hunts)
    BY <2>1, <2>2, <2>5, <2>6
  <2>8. QED
    BY <1>4, <2>7 DEF UpdateWrite, SettingsInv, SettingsTypes, Hunt
<1>5. ASSUME NEW w \in Admins, NEW h \in HuntIds, RunRead(w, h)
      PROVE  SettingsTypes'
  BY <1>5 DEF RunRead, SettingsInv, SettingsTypes
<1>6. ASSUME NEW w \in Admins, RunRecord(w) PROVE SettingsTypes'
  BY <1>6
  DEF RunRecord, SettingsInv, SettingsTypes, AdminsOK, AdminOK, HuntIds
<1>7. ASSUME NEW c \in CriteriaSet, NEW e \in BOOLEAN, CreateHunt(c, e)
      PROVE  SettingsTypes'
  <2> DEFINE Hunt == [criteria : CriteriaSet, enabled : BOOLEAN]
  <2>1. hunts \in Seq(Hunt)
    BY DEF SettingsInv, SettingsTypes
  <2>2. [criteria |-> c, enabled |-> e] \in Hunt
    OBVIOUS
  <2> DEFINE new == [criteria |-> c, enabled |-> e]
  <2>3. hunts' = Append(hunts, new)
    BY <1>7 DEF CreateHunt
  <2> HIDE DEF new, Hunt
  <2>4. hunts' \in Seq(Hunt) /\ Len(hunts') = Len(hunts) + 1
    BY <2>1, <2>2, <2>3 DEF new
  <2>5. wanted' \in Seq(CriteriaSet) /\ Len(wanted') = Len(wanted) + 1
    BY <1>7 DEF CreateHunt, SettingsInv, SettingsTypes
  <2>6. QED
    BY <1>7, <2>4, <2>5 DEF CreateHunt, SettingsInv, SettingsTypes, Hunt
<1>8. CASE UNCHANGED settingsVars
  BY <1>8, <1>same DEF settingsVars
<1> QED
  BY <1>1, <1>2, <1>3, <1>4, <1>5, <1>6, <1>7, <1>8 DEF SettingsNext

\* What a handler has read, it keeps until it writes.
LEMMA AdminsOKStep == SettingsInv /\ [SettingsNext]_settingsVars => AdminsOK'
<1> SUFFICES ASSUME SettingsInv, [SettingsNext]_settingsVars PROVE AdminsOK'
  OBVIOUS
<1>same. CASE UNCHANGED <<hunts, admin>>
  BY <1>same DEF SettingsInv, AdminsOK, AdminOK, Putting, HuntIds
<1>1. ASSUME NEW w \in Admins, NEW b \in Bodies, NEW n \in 1..MaxVersion,
             PutRead(w, b, n)
      PROVE  AdminsOK'
  BY <1>1
  DEF PutRead, NextVersion, SettingsInv, SettingsTypes, AdminsOK, AdminOK,
      Putting, HuntIds
<1>2. ASSUME NEW w \in Admins, PutWrite(w) PROVE AdminsOK'
  BY <1>2
  DEF PutWrite, Waiting, SettingsInv, AdminsOK, AdminOK, Putting, HuntIds
<1>3. ASSUME NEW w \in Admins, NEW h \in HuntIds,
           NEW i \in Indicators \cup {NoCriterion, Keep},
           NEW q \in Queries \cup {NoCriterion, Keep},
           NEW e \in BOOLEAN \cup {Keep}, UpdateRead(w, h, i, q, e)
    PROVE  AdminsOK'
  <2>0. PICK next, aim \in CriteriaSet : ReadsRow(w, h, i, e, next, aim)
    BY <1>3, UpdateReadShape
  <2>1. /\ Given(next)
        /\ hunts[h].criteria = wanted[h] => next = aim
        /\ wanted' = [wanted EXCEPT ![h] = aim]
        /\ admin' = [admin EXCEPT ![w] =
               [pc |-> "update", hunt |-> h, next |-> next,
                indicator |-> i, enabled |-> e]]
    BY <2>0 DEF ReadsRow
  <2>2. UNCHANGED hunts
    BY <1>3 DEF UpdateRead
  <2>3. QED
    BY <2>1, <2>2 DEF SettingsInv, AdminsOK, AdminOK, Putting, HuntIds
<1>4. ASSUME NEW w \in Admins, UpdateWrite(w) PROVE AdminsOK'
  BY <1>4
  DEF UpdateWrite, Waiting, SettingsInv, AdminsOK, AdminOK, Putting, HuntIds
<1>5. ASSUME NEW w \in Admins, NEW h \in HuntIds, RunRead(w, h)
      PROVE  AdminsOK'
  <2> DEFINE c == hunts[h].criteria
  <2>1. c \in CriteriaSet /\ Given(c)
    BY RowsTyped DEF SettingsInv, HuntsKeepACriterion
  <2>2. /\ admin' = [admin EXCEPT ![w] = [pc |-> "run", hunt |-> h, criteria |-> c]]
        /\ UNCHANGED hunts
    BY <1>5 DEF RunRead
  <2> HIDE DEF c
  <2>3. QED
    BY <2>1, <2>2 DEF SettingsInv, AdminsOK, AdminOK, Putting, HuntIds
<1>6. ASSUME NEW w \in Admins, RunRecord(w) PROVE AdminsOK'
  BY <1>6
  DEF RunRecord, Waiting, SettingsInv, AdminsOK, AdminOK, Putting, HuntIds
<1>7. ASSUME NEW c \in CriteriaSet, NEW e \in BOOLEAN, CreateHunt(c, e)
      PROVE  AdminsOK'
  BY <1>7 DEF CreateHunt, SettingsInv, AdminsOK, AdminOK, Putting, HuntIds
<1>8. CASE UNCHANGED settingsVars
  BY <1>8, <1>same DEF settingsVars
<1> QED
  BY <1>1, <1>2, <1>3, <1>4, <1>5, <1>6, <1>7, <1>8 DEF SettingsNext

\* A PUT read the current version, unless another was under way.
LEMMA PutsInOrderStep ==
    SettingsInv /\ [SettingsNext]_settingsVars => PutsInOrder'
<1> SUFFICES ASSUME SettingsInv, [SettingsNext]_settingsVars
             PROVE  PutsInOrder'
  OBVIOUS
<1>same. CASE UNCHANGED <<config, puts, admin, crossedPut>>
  BY <1>same DEF SettingsInv, PutsInOrder, Putting
<1>1. ASSUME NEW w \in Admins, NEW b \in Bodies, NEW n \in 1..MaxVersion,
             PutRead(w, b, n)
      PROVE  PutsInOrder'
  <2>1. SUFFICES ASSUME ~crossedPut' PROVE PutsInOrder'
    BY DEF PutsInOrder
  <2>2. ~crossedPut /\ ~Crosses(w, "put", 0) /\ UNCHANGED <<config, puts>>
    BY <1>1, <2>1 DEF PutRead
  <2>3. \A v \in Admins : ~Putting(v)
    BY <1>1, <2>2
    DEF Crosses, PutRead, Waiting, Putting, SettingsInv, AdminsOK, AdminOK
  <2>4. \A v \in Admins \ {w} : admin'[v] = admin[v]
    BY <1>1 DEF PutRead, SettingsInv
  <2>5. admin'[w].version = NextVersion(n, config.version)
    BY <1>1 DEF PutRead, SettingsInv, SettingsTypes
  <2>6. NextVersion(n, config.version) > config.version
    BY DEF NextVersion, SettingsInv, SettingsTypes
  <2>7. \A v \in Admins : Putting(v)' => v = w
    BY <2>3, <2>4 DEF Putting
  <2>8. QED
    BY <2>1, <2>2, <2>5, <2>6, <2>7 DEF PutsInOrder, SettingsInv
<1>2. ASSUME NEW w \in Admins, PutWrite(w) PROVE PutsInOrder'
  <2>1. SUFFICES ASSUME ~crossedPut' PROVE PutsInOrder'
    BY DEF PutsInOrder
  <2>2. ~crossedPut /\ Putting(w)
    BY <1>2, <2>1 DEF PutWrite, Putting
  <2> DEFINE new == [version |-> admin[w].version, body |-> admin[w].body]
  <2>3. config' = new /\ puts' = Append(puts, new)
    BY <1>2 DEF PutWrite
  <2>4. /\ admin[w].version \in Nat /\ admin[w].body \in Bodies
        /\ \A i \in DOMAIN puts : puts[i].version < admin[w].version
        /\ \A i, j \in DOMAIN puts : i < j => puts[i].version < puts[j].version
    <3>1. admin[w].version \in Nat /\ admin[w].body \in Bodies
      BY <2>2 DEF SettingsInv, AdminsOK, AdminOK
    <3>2. \A i \in DOMAIN puts : puts[i].version \in Nat
      BY RowsTyped DEF SettingsInv
    <3>3. QED
      BY <2>2, <3>1, <3>2 DEF SettingsInv, SettingsTypes, PutsInOrder
  <2>5. \A v \in Admins : ~Putting(v)'
    BY <1>2, <2>2
    DEF PutWrite, Putting, Waiting, PutsInOrder, SettingsInv, SettingsTypes
  <2> DEFINE Put == [version : Nat, body : Bodies]
  <2>6. new \in Put /\ puts \in Seq(Put)
    BY <2>4 DEF SettingsInv, SettingsTypes
  <2>7. new.version = admin[w].version
    OBVIOUS
  <2> HIDE DEF new, Put
  <2>8. /\ \A i \in DOMAIN puts' :
              puts'[i] = IF i \in DOMAIN puts THEN puts[i] ELSE new
        /\ \A i, j \in DOMAIN puts' : i < j => i \in DOMAIN puts
    BY <2>3, <2>6
  <2>9. \A i \in DOMAIN puts' : puts'[i].version <= config'.version
    <3>1. config'.version = admin[w].version
      BY <2>3, <2>7
    <3>2. ASSUME NEW i \in DOMAIN puts PROVE puts[i].version <= admin[w].version
      BY <2>4, RowsTyped DEF SettingsInv
    <3>3. QED
      BY <2>4, <2>7, <2>8, <3>1, <3>2
  <2>10. \A i, j \in DOMAIN puts' : i < j => puts'[i].version < puts'[j].version
    BY <2>4, <2>7, <2>8
  <2>11. QED
    BY <2>5, <2>9, <2>10 DEF PutsInOrder
<1>3. ASSUME NEW w \in Admins, NEW h \in HuntIds,
           NEW i \in Indicators \cup {NoCriterion, Keep},
           NEW q \in Queries \cup {NoCriterion, Keep},
           NEW e \in BOOLEAN \cup {Keep}, UpdateRead(w, h, i, q, e)
    PROVE  PutsInOrder'
  BY <1>3 DEF UpdateRead, SettingsInv, Putting, PutsInOrder
<1>4. ASSUME NEW w \in Admins, UpdateWrite(w) PROVE PutsInOrder'
  BY <1>4 DEF UpdateWrite, Waiting, SettingsInv, Putting, PutsInOrder
<1>5. ASSUME NEW w \in Admins, NEW h \in HuntIds, RunRead(w, h)
      PROVE  PutsInOrder'
  BY <1>5 DEF RunRead, SettingsInv, Putting, PutsInOrder
<1>6. ASSUME NEW w \in Admins, RunRecord(w) PROVE PutsInOrder'
  BY <1>6 DEF RunRecord, Waiting, SettingsInv, Putting, PutsInOrder
<1>7. ASSUME NEW c \in CriteriaSet, NEW e \in BOOLEAN, CreateHunt(c, e)
      PROVE  PutsInOrder'
  BY <1>7, <1>same DEF CreateHunt
<1>8. CASE UNCHANGED settingsVars
  BY <1>8, <1>same DEF settingsVars
<1> QED
  BY <1>1, <1>2, <1>3, <1>4, <1>5, <1>6, <1>7, <1>8 DEF SettingsNext

\* An update is the only one of its hunt, unless it crossed another.
LEMMA UpdatesInOrderStep ==
    SettingsInv /\ [SettingsNext]_settingsVars => UpdatesInOrder'
<1> SUFFICES ASSUME SettingsInv, [SettingsNext]_settingsVars
             PROVE  UpdatesInOrder'
  OBVIOUS
<1>same. CASE UNCHANGED <<hunts, admin, wanted, crossed>>
  BY <1>same DEF SettingsInv, UpdatesInOrder, Updating, HuntIds
<1>1. ASSUME NEW w \in Admins, NEW b \in Bodies, NEW n \in 1..MaxVersion,
             PutRead(w, b, n)
      PROVE  UpdatesInOrder'
  BY <1>1 DEF PutRead, SettingsInv, Updating, UpdatesInOrder, HuntIds
<1>2. ASSUME NEW w \in Admins, PutWrite(w) PROVE UpdatesInOrder'
  BY <1>2
  DEF PutWrite, Waiting, SettingsInv, Updating, UpdatesInOrder, HuntIds
<1>3. ASSUME NEW w \in Admins, NEW h \in HuntIds,
           NEW i \in Indicators \cup {NoCriterion, Keep},
           NEW q \in Queries \cup {NoCriterion, Keep},
           NEW e \in BOOLEAN \cup {Keep}, UpdateRead(w, h, i, q, e)
    PROVE  UpdatesInOrder'
  <2>0. PICK next, aim \in CriteriaSet : ReadsRow(w, h, i, e, next, aim)
    BY <1>3, UpdateReadShape
  <2>1. /\ Given(next)
        /\ hunts[h].criteria = wanted[h] => next = aim
        /\ wanted' = [wanted EXCEPT ![h] = aim]
        /\ admin' = [admin EXCEPT ![w] =
               [pc |-> "update", hunt |-> h, next |-> next,
                indicator |-> i, enabled |-> e]]
    BY <2>0 DEF ReadsRow
  <2>2. UNCHANGED <<hunts, huntRuns>> /\ crossed \subseteq crossed'
    BY <1>3 DEF UpdateRead
  <2>3. h \notin crossed' => \A v \in Admins : ~Updating(v, h)
    BY <1>3 DEF UpdateRead, Crosses, Waiting, Updating
  <2>4. \A v \in Admins : v # w => admin'[v] = admin[v]
    BY <2>1 DEF SettingsInv
  <2>5. admin'[w].pc = "update" /\ admin'[w].hunt = h /\ admin'[w].next = next
    BY <2>1 DEF SettingsInv, SettingsTypes
  <2>6. h \notin crossed' => next = aim
    BY <2>1, <2>2, <2>3 DEF Updating, SettingsInv, HuntsKeepACriterion
  <2>7. \A g \in HuntIds : wanted'[g] = IF g = h THEN aim ELSE wanted[g]
    BY <2>1 DEF SettingsInv, SettingsTypes, HuntIds
  <2>8. \A g \in HuntIds, v \in Admins :
           Updating(v, g)' <=> IF v = w THEN g = h ELSE Updating(v, g)
    BY <2>4, <2>5 DEF Updating
  <2>9. ASSUME NEW g \in HuntIds \ crossed'
        PROVE  /\ \A u, v \in Admins : Updating(u, g)' /\ Updating(v, g)' => u = v
               /\ \A v \in Admins : Updating(v, g)' => admin'[v].next = wanted'[g]
    BY <2>2, <2>3, <2>4, <2>5, <2>6, <2>7, <2>8, <2>9
    DEF SettingsInv, UpdatesInOrder
  <2>10. HuntIds' = HuntIds
    BY <2>2 DEF HuntIds
  <2>11. QED
    BY <2>9, <2>10 DEF UpdatesInOrder
<1>4. ASSUME NEW w \in Admins, UpdateWrite(w) PROVE UpdatesInOrder'
  BY <1>4
  DEF UpdateWrite, Waiting, SettingsInv, Updating, UpdatesInOrder, HuntIds
<1>5. ASSUME NEW w \in Admins, NEW h \in HuntIds, RunRead(w, h)
      PROVE  UpdatesInOrder'
  BY <1>5 DEF RunRead, SettingsInv, Updating, UpdatesInOrder, HuntIds
<1>6. ASSUME NEW w \in Admins, RunRecord(w) PROVE UpdatesInOrder'
  BY <1>6
  DEF RunRecord, Waiting, SettingsInv, Updating, UpdatesInOrder, HuntIds
<1>7. ASSUME NEW c \in CriteriaSet, NEW e \in BOOLEAN, CreateHunt(c, e)
      PROVE  UpdatesInOrder'
  BY <1>7
  DEF CreateHunt, SettingsInv, SettingsTypes, AdminsOK, AdminOK, Updating,
      UpdatesInOrder, HuntIds
<1>8. CASE UNCHANGED settingsVars
  BY <1>8, <1>same DEF settingsVars
<1> QED
  BY <1>1, <1>2, <1>3, <1>4, <1>5, <1>6, <1>7, <1>8 DEF SettingsNext

\* What is written has a criterion and, without a crossing, is what was asked
\* for.
LEMMA HuntsStep ==
    SettingsInv /\ [SettingsNext]_settingsVars => HuntsKeepACriterion'
<1> SUFFICES ASSUME SettingsInv, [SettingsNext]_settingsVars
             PROVE  HuntsKeepACriterion'
  OBVIOUS
<1>same. CASE UNCHANGED <<hunts, admin, wanted, crossed, huntRuns>>
  BY <1>same DEF SettingsInv, HuntsKeepACriterion, HuntIds
<1>1. ASSUME NEW w \in Admins, NEW b \in Bodies, NEW n \in 1..MaxVersion,
             PutRead(w, b, n)
      PROVE  HuntsKeepACriterion'
  BY <1>1 DEF PutRead, Waiting, SettingsInv, HuntIds, HuntsKeepACriterion
<1>2. ASSUME NEW w \in Admins, PutWrite(w) PROVE HuntsKeepACriterion'
  BY <1>2 DEF PutWrite, SettingsInv, HuntIds, HuntsKeepACriterion
<1>3. ASSUME NEW w \in Admins, NEW h \in HuntIds,
           NEW i \in Indicators \cup {NoCriterion, Keep},
           NEW q \in Queries \cup {NoCriterion, Keep},
           NEW e \in BOOLEAN \cup {Keep}, UpdateRead(w, h, i, q, e)
    PROVE  HuntsKeepACriterion'
  <2>0. PICK next, aim \in CriteriaSet : ReadsRow(w, h, i, e, next, aim)
    BY <1>3, UpdateReadShape
  <2>1. /\ Given(next)
        /\ hunts[h].criteria = wanted[h] => next = aim
        /\ wanted' = [wanted EXCEPT ![h] = aim]
        /\ admin' = [admin EXCEPT ![w] =
               [pc |-> "update", hunt |-> h, next |-> next,
                indicator |-> i, enabled |-> e]]
    BY <2>0 DEF ReadsRow
  <2>2. UNCHANGED <<hunts, huntRuns>> /\ crossed \subseteq crossed'
    BY <1>3 DEF UpdateRead
  <2>3. h \notin crossed' => \A v \in Admins : ~Updating(v, h)
    BY <1>3 DEF UpdateRead, Crosses, Waiting, Updating
  <2>4. \A v \in Admins : v # w => admin'[v] = admin[v]
    BY <2>1 DEF SettingsInv
  <2>5. admin'[w].pc = "update" /\ admin'[w].hunt = h /\ admin'[w].next = next
    BY <2>1 DEF SettingsInv, SettingsTypes
  <2>6. h \notin crossed' => next = aim
    BY <2>1, <2>2, <2>3 DEF Updating, SettingsInv, HuntsKeepACriterion
  <2>7. \A g \in HuntIds : wanted'[g] = IF g = h THEN aim ELSE wanted[g]
    BY <2>1 DEF SettingsInv, SettingsTypes, HuntIds
  <2>8. HuntIds' = HuntIds
    BY <2>2 DEF HuntIds
  <2>9. ASSUME NEW g \in HuntIds \ crossed'
        PROVE  \/ hunts'[g].criteria = wanted'[g]
               \/ \E v \in Admins : Updating(v, g)'
    <3>1. CASE g = h
      BY <2>5, <3>1 DEF Updating
    <3>2. CASE g # h
      <4>1. hunts'[g] = hunts[g] /\ wanted'[g] = wanted[g] /\ g \in HuntIds \ crossed
        BY <2>2, <2>7, <3>2
      <4>2. CASE hunts[g].criteria = wanted[g]
        BY <4>1, <4>2
      <4>3. ASSUME NEW v \in Admins, Updating(v, g) PROVE Updating(v, g)'
        <5>1. v # w
          BY <1>3, <4>3 DEF UpdateRead, Waiting, Updating
        <5>2. QED
          BY <2>4, <4>3, <5>1 DEF Updating
      <4>4. QED
        BY <4>1, <4>2, <4>3 DEF SettingsInv, HuntsKeepACriterion, Updating
    <3>3. QED
      BY <3>1, <3>2
  <2>10. QED
    BY <2>2, <2>8, <2>9 DEF SettingsInv, HuntsKeepACriterion, Updating
<1>4. ASSUME NEW w \in Admins, UpdateWrite(w) PROVE HuntsKeepACriterion'
  BY <1>4
  DEF UpdateWrite, Criteria, SettingsInv, AdminsOK, AdminOK, Updating,
      UpdatesInOrder, HuntIds, HuntsKeepACriterion
<1>5. ASSUME NEW w \in Admins, NEW h \in HuntIds, RunRead(w, h)
      PROVE  HuntsKeepACriterion'
  BY <1>5 DEF RunRead, Waiting, SettingsInv, HuntIds, HuntsKeepACriterion
<1>6. ASSUME NEW w \in Admins, RunRecord(w) PROVE HuntsKeepACriterion'
  BY <1>6
  DEF RunRecord, SettingsInv, AdminsOK, AdminOK, HuntIds, HuntsKeepACriterion
<1>7. ASSUME NEW c \in CriteriaSet, NEW e \in BOOLEAN, CreateHunt(c, e)
      PROVE  HuntsKeepACriterion'
  BY <1>7
  DEF CreateHunt, SettingsInv, SettingsTypes, HuntIds, HuntsKeepACriterion
<1>8. CASE UNCHANGED settingsVars
  BY <1>8, <1>same DEF settingsVars
<1> QED
  BY <1>1, <1>2, <1>3, <1>4, <1>5, <1>6, <1>7, <1>8 DEF SettingsNext

\* There are no hunts and no PUTs at first.
LEMMA SettingsStart == SettingsInit => SettingsInv
BY DEF SettingsInit, SettingsInv, SettingsTypes, AdminsOK, AdminOK,
    PutsInOrder, UpdatesInOrder, HuntsKeepACriterion, HuntIds, Waiting,
    Putting

\* The property is a part of the invariant.
LEMMA VersionsFollow == SettingsInv => VersionsIncrease
BY DEF SettingsInv, VersionsIncrease, PutsInOrder

\* ... and so always.
LEMMA SettingsInvariant == SettingsSpec => []SettingsInv
<1>1. SettingsInv /\ [SettingsNext]_settingsVars => SettingsInv'
  BY SettingsTypesStep, AdminsOKStep, PutsInOrderStep, UpdatesInOrderStep,
     HuntsStep
  DEF SettingsInv
<1>2. QED
  BY <1>1, SettingsStart, PTL DEF SettingsSpec

(* Evidence *)

Upload == [pc : {"open", "write", "commit"}, req : Request] \cup {NoUpload}
Writing(u, k) == upload[u].pc \in {"write", "commit"} /\ Key(upload[u].req) = k

EvidenceTypes ==
    /\ files \in [Keys -> Request \cup {NoFile, Torn}]
    /\ rows \in [Keys -> Request \cup {NoFile}]
    /\ upload \in [Uploaders -> Upload]

\* An object or a row is of an upload with its key, and a file's has a
\* purpose.
Purposeful(req) == req.kind = "file" => req.purpose # NoPurpose
InPlace ==
    /\ \A u \in Uploaders : upload[u] # NoUpload => Purposeful(upload[u].req)
    /\ \A k \in Keys : /\ files[k] \in Request => Key(files[k]) = k
                       /\ rows[k] \in Request => Key(rows[k]) = k /\ Purposeful(rows[k])

\* The object is there before the row.
ObjectFirst ==
    \A k \in Keys :
        rows[k] # NoFile \/ (\E u \in Uploaders : Writing(u, k)) => files[k] # NoFile

\* Half an object is being written, or was disturbed.
TornIsExplained ==
    \A k \in Keys : files[k] = Torn => k \in disturbed \/ Uploading(k) # {}

\* What was written once, was written by one upload.
WrittenOnce ==
    \A k \in Keys \ again :
        /\ \A u, v \in Uploaders : Writing(u, k) /\ Writing(v, k) => u = v
        /\ \A u \in Uploaders : Writing(u, k) =>
              rows[k] = NoFile /\ files[k] \in {Torn, upload[u].req}
        /\ rows[k] # NoFile => files[k] \in {Torn, rows[k]}

EvidenceInv ==
    EvidenceTypes /\ InPlace /\ ObjectFirst /\ TornIsExplained /\ WrittenOnce

\* The key of an upload is one of the keys.
LEMMA KeyIn == ASSUME NEW req \in Request PROVE Key(req) \in Keys
BY DEF Key, Request, Keys

\* A thread has an upload, or none.
LEMMA UploadIs ==
    ASSUME EvidenceTypes, NEW u \in Uploaders
    PROVE  /\ upload[u] = NoUpload \/ upload[u].pc \in {"open", "write", "commit"}
           /\ NoUpload.pc = "idle"
           /\ upload[u].pc # "idle" =>
                 upload[u].req \in Request /\ Key(upload[u].req) \in Keys
           /\ upload[u].pc = "idle" <=> upload[u] = NoUpload
BY KeyIn DEF EvidenceTypes, Upload, NoUpload
\* Objects, rows and uploads keep their types.
LEMMA EvidenceTypesStep ==
    EvidenceInv /\ [EvidenceNext]_evidenceVars => EvidenceTypes'
<1> SUFFICES ASSUME EvidenceInv, [EvidenceNext]_evidenceVars
             PROVE  EvidenceTypes'
  OBVIOUS
<1>same. CASE UNCHANGED <<files, rows, upload>>
  BY <1>same DEF EvidenceInv, EvidenceTypes
<1>1. ASSUME NEW u \in Uploaders, NEW req \in Request, Receive(u, req)
      PROVE  EvidenceTypes'
  BY <1>1 DEF Receive, EvidenceInv, EvidenceTypes, Upload
<1>2. ASSUME NEW u \in Uploaders, Open(u) PROVE EvidenceTypes'
  BY <1>2, UploadIs DEF Open, EvidenceInv, EvidenceTypes, Upload
<1>3. ASSUME NEW u \in Uploaders, Write(u) PROVE EvidenceTypes'
  BY <1>3, UploadIs DEF Write, EvidenceInv, EvidenceTypes, Upload
<1>4. ASSUME NEW u \in Uploaders, Commit(u) PROVE EvidenceTypes'
  BY <1>4, UploadIs DEF Commit, Record, EvidenceInv, EvidenceTypes, Upload
<1>5. ASSUME NEW u \in Uploaders, Interrupt(u) PROVE EvidenceTypes'
  BY <1>5 DEF Interrupt, EvidenceInv, EvidenceTypes, Upload
<1>6. CASE UNCHANGED evidenceVars
  BY <1>6, <1>same DEF evidenceVars
<1> QED
  BY <1>1, <1>2, <1>3, <1>4, <1>5, <1>6 DEF EvidenceNext

\* An object and a row are written under the key of their upload.
LEMMA InPlaceStep == EvidenceInv /\ [EvidenceNext]_evidenceVars => InPlace'
<1> SUFFICES ASSUME EvidenceInv, [EvidenceNext]_evidenceVars PROVE InPlace'
  OBVIOUS
<1>same. CASE UNCHANGED <<files, rows, upload>>
  BY <1>same DEF EvidenceInv, InPlace
<1>1. ASSUME NEW u \in Uploaders, NEW req \in Request, Receive(u, req)
      PROVE  InPlace'
  BY <1>1 DEF Receive, Acceptable, EvidenceInv, InPlace, Purposeful
<1>2. ASSUME NEW u \in Uploaders, Open(u) PROVE InPlace'
  BY <1>2, UploadIs, ObjectsAssumption DEF Open, EvidenceInv, InPlace
<1>3. ASSUME NEW u \in Uploaders, Write(u) PROVE InPlace'
  BY <1>3, UploadIs, ObjectsAssumption DEF Write, EvidenceInv, InPlace
<1>4. ASSUME NEW u \in Uploaders, Commit(u) PROVE InPlace'
  BY <1>4, UploadIs DEF Commit, Record, EvidenceInv, InPlace
<1>5. ASSUME NEW u \in Uploaders, Interrupt(u) PROVE InPlace'
  BY <1>5 DEF Interrupt, EvidenceInv, InPlace
<1>6. CASE UNCHANGED evidenceVars
  BY <1>6, <1>same DEF evidenceVars
<1> QED
  BY <1>1, <1>2, <1>3, <1>4, <1>5, <1>6 DEF EvidenceNext

\* No step removes an object.
LEMMA ObjectFirstStep ==
    EvidenceInv /\ [EvidenceNext]_evidenceVars => ObjectFirst'
<1> SUFFICES ASSUME EvidenceInv, [EvidenceNext]_evidenceVars
             PROVE  ObjectFirst'
  OBVIOUS
<1>same. CASE UNCHANGED <<files, rows, upload>>
  BY <1>same DEF EvidenceInv, ObjectFirst, Writing
<1>1. ASSUME NEW u \in Uploaders, NEW req \in Request, Receive(u, req)
      PROVE  ObjectFirst'
  BY <1>1 DEF Receive, EvidenceInv, ObjectFirst, Writing
<1>2. ASSUME NEW u \in Uploaders, Open(u) PROVE ObjectFirst'
  BY <1>2, ObjectsAssumption
  DEF Open, EvidenceInv, EvidenceTypes, ObjectFirst, Writing
<1>3. ASSUME NEW u \in Uploaders, Write(u) PROVE ObjectFirst'
  BY <1>3, UploadIs, ObjectsAssumption
  DEF Write, EvidenceInv, ObjectFirst, Writing
<1>4. ASSUME NEW u \in Uploaders, Commit(u) PROVE ObjectFirst'
  BY <1>4, UploadIs DEF Commit, EvidenceInv, ObjectFirst, Writing
<1>5. ASSUME NEW u \in Uploaders, Interrupt(u) PROVE ObjectFirst'
  BY <1>5, UploadIs DEF Interrupt, EvidenceInv, ObjectFirst, Writing
<1>6. CASE UNCHANGED evidenceVars
  BY <1>6, <1>same DEF evidenceVars
<1> QED
  BY <1>1, <1>2, <1>3, <1>4, <1>5, <1>6 DEF EvidenceNext

\* A writer that leaves half an object was interrupted or not alone.
LEMMA TornIsExplainedStep ==
    EvidenceInv /\ [EvidenceNext]_evidenceVars => TornIsExplained'
<1> SUFFICES ASSUME EvidenceInv, [EvidenceNext]_evidenceVars
             PROVE  TornIsExplained'
  OBVIOUS
<1>same. CASE UNCHANGED <<files, upload, disturbed>>
  BY <1>same DEF EvidenceInv, TornIsExplained, Uploading
<1>1. ASSUME NEW u \in Uploaders, NEW req \in Request, Receive(u, req)
      PROVE  TornIsExplained'
  BY <1>1, UploadIs DEF Receive, EvidenceInv, TornIsExplained, Uploading
<1>2. ASSUME NEW u \in Uploaders, Open(u) PROVE TornIsExplained'
  BY <1>2 DEF Open, Uploading, EvidenceInv, EvidenceTypes, TornIsExplained
<1>3. ASSUME NEW u \in Uploaders, Write(u) PROVE TornIsExplained'
  <2> DEFINE key == Key(upload[u].req)
  <2>1. upload[u].req \in Request /\ key \in Keys /\ key = Key(upload[u].req)
    BY <1>3, UploadIs DEF Write, EvidenceInv
  <2>2. PICK whole \in IF key \in disturbed THEN BOOLEAN ELSE {TRUE} :
           files' = [files EXCEPT ![key] = IF whole THEN upload[u].req ELSE Torn]
    BY <1>3 DEF Write
  <2>3. UNCHANGED disturbed /\ upload' = [upload EXCEPT ![u].pc = "commit"]
    BY <1>3 DEF Write
  <2> HIDE DEF key
  <2>4. files'[key] = Torn => key \in disturbed'
    BY <2>1, <2>2, <2>3, ObjectsAssumption DEF EvidenceInv, EvidenceTypes
  <2>5. ASSUME NEW k \in Keys, k # key, files'[k] = Torn
        PROVE  k \in disturbed' \/ Uploading(k)' # {}
    <3>1. files[k] = Torn
      BY <2>1, <2>2, <2>5 DEF EvidenceInv
    <3>2. CASE k \in disturbed
      BY <2>3, <3>2
    <3>3. ASSUME NEW v \in Uploaders, upload[v].pc = "write", Key(upload[v].req) = k
          PROVE  v \in Uploading(k)'
      BY <2>1, <2>3, <2>5, <3>3 DEF Uploading, EvidenceInv
    <3>4. QED
      BY <3>1, <3>2, <3>3 DEF EvidenceInv, TornIsExplained, Uploading
  <2>6. QED
    BY <2>4, <2>5 DEF TornIsExplained
<1>4. ASSUME NEW u \in Uploaders, Commit(u) PROVE TornIsExplained'
  BY <1>4 DEF Commit, EvidenceInv, TornIsExplained, Uploading
<1>5. ASSUME NEW u \in Uploaders, Interrupt(u) PROVE TornIsExplained'
  BY <1>5 DEF Interrupt, EvidenceInv, TornIsExplained, Uploading
<1>6. CASE UNCHANGED evidenceVars
  BY <1>6, <1>same DEF evidenceVars
<1> QED
  BY <1>1, <1>2, <1>3, <1>4, <1>5, <1>6 DEF EvidenceNext

\* A second writer of an object finds it there.
LEMMA WrittenOnceStep ==
    EvidenceInv /\ [EvidenceNext]_evidenceVars => WrittenOnce'
<1> SUFFICES ASSUME EvidenceInv, [EvidenceNext]_evidenceVars
             PROVE  WrittenOnce'
  OBVIOUS
<1>same. CASE UNCHANGED <<files, rows, upload, again>>
  BY <1>same DEF EvidenceInv, WrittenOnce, Writing
<1>1. ASSUME NEW u \in Uploaders, NEW req \in Request, Receive(u, req)
      PROVE  WrittenOnce'
  BY <1>1 DEF Receive, EvidenceInv, WrittenOnce, Writing
<1>2. ASSUME NEW u \in Uploaders, Open(u) PROVE WrittenOnce'
  BY <1>2
  DEF Open, EvidenceInv, EvidenceTypes, WrittenOnce, ObjectFirst, Writing
<1>3. ASSUME NEW u \in Uploaders, Write(u) PROVE WrittenOnce'
  BY <1>3 DEF Write, EvidenceInv, WrittenOnce, Writing
<1>4. ASSUME NEW u \in Uploaders, Commit(u) PROVE WrittenOnce'
  BY <1>4, UploadIs
  DEF Commit, Record, EvidenceInv, EvidenceTypes, WrittenOnce, Writing
<1>5. ASSUME NEW u \in Uploaders, Interrupt(u) PROVE WrittenOnce'
  BY <1>5, UploadIs DEF Interrupt, EvidenceInv, WrittenOnce, Writing
<1>6. CASE UNCHANGED evidenceVars
  BY <1>6, <1>same DEF evidenceVars
<1> QED
  BY <1>1, <1>2, <1>3, <1>4, <1>5, <1>6 DEF EvidenceNext

\* Nothing is uploaded at first.
LEMMA EvidenceStart == EvidenceInit => EvidenceInv
BY ObjectsAssumption
DEF EvidenceInit, EvidenceInv, EvidenceTypes, Upload, InPlace, ObjectFirst,
    TornIsExplained, WrittenOnce, NoUpload, Writing

\* The property follows from the last four parts.
LEMMA EvidenceFollows == EvidenceInv => EvidenceHolds
<1> SUFFICES ASSUME EvidenceInv, NEW k \in Keys, rows[k] # NoFile
             PROVE  /\ files[k] # NoFile
                    /\ files[k] = Torn => k \in disturbed \/ Uploading(k) # {}
                    /\ files[k] # Torn =>
                          /\ files[k].content = rows[k].content
                          /\ files[k] = rows[k] \/ k \in again
                    /\ rows[k].kind = "file" => rows[k].purpose # NoPurpose
  BY DEF EvidenceHolds
<1>1. files[k] # NoFile
  BY DEF EvidenceInv, ObjectFirst
<1>2. files[k] = Torn => k \in disturbed \/ Uploading(k) # {}
  BY DEF EvidenceInv, TornIsExplained
<1>3. rows[k] \in Request /\ Key(rows[k]) = k /\ Purposeful(rows[k])
  BY DEF EvidenceInv, EvidenceTypes, InPlace
<1>4. ASSUME files[k] # Torn PROVE files[k] \in Request /\ Key(files[k]) = k
  BY <1>1, <1>4 DEF EvidenceInv, EvidenceTypes, InPlace
<1>5. ASSUME files[k] # Torn PROVE files[k].content = rows[k].content
  BY <1>3, <1>4, <1>5 DEF Key
<1>6. ASSUME files[k] # Torn, k \notin again PROVE files[k] = rows[k]
  BY <1>6 DEF EvidenceInv, WrittenOnce
<1>7. rows[k].kind = "file" => rows[k].purpose # NoPurpose
  BY <1>3 DEF Purposeful
<1>8. QED
  BY <1>1, <1>2, <1>5, <1>6, <1>7

\* ... and so always.
LEMMA EvidenceInvariant == EvidenceSpec => []EvidenceInv
<1>1. EvidenceInv /\ [EvidenceNext]_evidenceVars => EvidenceInv'
  BY EvidenceTypesStep, InPlaceStep, ObjectFirstStep, TornIsExplainedStep,
     WrittenOnceStep
  DEF EvidenceInv
<1>2. QED
  BY <1>1, EvidenceStart, PTL DEF EvidenceSpec

-----------------------------------------------------------------------------
(* Startup *)

\* There are no tokens at first.
LEMMA StartupStart == StartupInit => TokensHaveCause
BY DEF StartupInit, TokensHaveCause

\* A server that starts in production makes no development token.
LEMMA ProductionHasNoDevToken ==
    ASSUME NEW s, Refusals(s) = {}, s.profile = "production"
    PROVE  ~CreatesDevToken(s)
<1> SUFFICES ASSUME CreatesDevToken(s) PROVE FALSE
  OBVIOUS
<1>1. "production_create_dev_token_disabled" \in
         {why \in {"production_create_dev_token_disabled"} : CreatesDevToken(s)}
  OBVIOUS
<1>2. QED
  BY <1>1 DEF Refusals

\* A token that nobody got, or that came back, has one of the causes.
LEMMA StartupStep ==
    TokensHaveCause /\ [StartupNext]_startupVars => TokensHaveCause'
<1> SUFFICES ASSUME TokensHaveCause, [StartupNext]_startupVars
             PROVE  TokensHaveCause'
  OBVIOUS
<1>1. ASSUME StartServer PROVE TokensHaveCause'
  <2>1. PICK s \in Settings : Refusals(s) = {} /\ Start(s)
    BY <1>1 DEF StartServer, Startable
  <2>2. CreatesDevToken(s) => s.profile # "production"
    BY <2>1, ProductionHasNoDevToken
  <2>3. CASE ~CreatesDevToken(s)
    BY <2>1, <2>3 DEF Start, TokensHaveCause
  <2>4. CASE CreatesDevToken(s)
    <3>1. "production" \notin revived'
      BY <2>1, <2>2, <2>4 DEF Start, TokensHaveCause
    <3>2. \A u \in unknown' :
             u \in unknown \/ (u[2] = "start:blank_enrollment_token" /\ u[3] = s.profile)
      <4> DEFINE Why == {w \in {"start:blank_enrollment_token"} : s.enrollment_token = ""}
      <4>1. PICK t \in BootstrapTokens(s) :
               unknown' = unknown \cup {<<t, why, s.profile>> : why \in Why}
        BY <2>1, <2>4 DEF Start
      <4>2. \A why \in Why : why = "start:blank_enrollment_token"
        OBVIOUS
      <4> HIDE DEF Why
      <4>3. QED
        BY <4>1, <4>2
    <3>3. QED
      BY <2>2, <2>4, <3>1, <3>2 DEF TokensHaveCause
  <2>5. QED
    BY <2>3, <2>4
<1>2. CASE UNCHANGED <<unknown, revived>>
  BY <1>2 DEF TokensHaveCause
<1>3. ASSUME Administer PROVE TokensHaveCause'
  <2> DEFINE Lost == {"config:unsupported_agent_naming_profile", "package:binary_gone"}
  <2>1. ASSUME NEW lost \in SUBSET Lost, Make(lost)
        PROVE  \A u \in unknown' : u \in unknown \/ u[2] \in Lost
    BY <2>1 DEF Make
  <2>2. \/ UNCHANGED unknown
        \/ \E lost \in SUBSET Lost : Make(lost)
    BY <1>3
    DEF Administer, CreateToken, DownloadConfig, DownloadPackage, RevokeToken,
        Refused
  <2>3. QED
    BY <1>3, <2>1, <2>2 DEF Administer, TokensHaveCause
<1>4. QED
  BY <1>1, <1>2, <1>3 DEF StartupNext, StopServer, startupVars

\* ... and so always.
LEMMA StartupInvariant == StartupSpec => []TokensHaveCause
<1>1. TokensHaveCause /\ [StartupNext]_startupVars => TokensHaveCause'
  BY StartupStep
<1>2. QED
  BY <1>1, StartupStart, PTL DEF StartupSpec

-----------------------------------------------------------------------------
(* TaskPolicy *)

\* The catalogue by what the policy asks of a type.
Harmless == {"inventory", "process_list", "network_connections", "service_list",
             "scheduled_tasks", "agent_identity", "listening_ports", "autoruns_collect",
             "windows_event_logs", "file_exists", "file_hash", "list_directory",
             "registry_query", "process_tree", "process_detail"}
Sensitive == {"read_file_chunk", "copy_file", "collect_file"}
Responses == {"quarantine_file", "delete_file", "kill_process", "service_control"}

\* The three kinds are the whole catalogue.
LEMMA CatalogIs == DOMAIN TASK_CATALOG = Harmless \cup Sensitive \cup Responses
BY DEF TASK_CATALOG, Harmless, Sensitive, Responses

\* What the policy reads of each.
Rated(t, risk, responds) ==
    /\ TASK_CATALOG[t].risk = risk
    /\ TASK_CATALOG[t].destructive = responds /\ TASK_CATALOG[t].explicit = responds

\* A harmless type only reads, at a low risk.
LEMMA HarmlessRated == \A t \in Harmless : Rated(t, "low", FALSE)
BY DEF Harmless, Rated, TASK_CATALOG, Reads

\* A sensitive one copies what it reads, at a medium risk.
LEMMA SensitiveRated == \A t \in Sensitive : Rated(t, "medium", FALSE)
BY DEF Sensitive, Rated, TASK_CATALOG, Reads

\* A response changes the host, at a high risk.
LEMMA ResponsesRated == \A t \in Responses : Rated(t, "high", TRUE)
BY DEF Responses, Rated, TASK_CATALOG, Responds

\* The agent gives each type the verdict and the risk the server does.
LEMMA VerdictsAgree ==
    ASSUME NEW t \in Types
    PROVE  /\ PolicyBlock(t) = AgentBlock(t)
           /\ PolicyBlock(t) = "none" <=> t \in Offered
           /\ t \in AgentKnows => Risk(t) = Meta(t).risk
<1>1. CASE t \in Harmless
  <2>1. Rated(t, "low", FALSE) /\ t \in DOMAIN TASK_CATALOG
    BY <1>1, HarmlessRated, CatalogIs
  <2>2. t \in AgentKnows /\ t # "copy_file"
    BY <1>1 DEF Harmless, AgentKnows
  <2>3. Meta(t).risk = "low" /\ ~Meta(t).destructive /\ ~Meta(t).mutating
    BY <1>1 DEF Harmless, Meta
  <2>4. QED
    BY <2>1, <2>2, <2>3 DEF Rated, PolicyBlock, AgentBlock, Offered, Risk
<1>2. CASE t \in Sensitive
  <2>1. Rated(t, "medium", FALSE) /\ t \in DOMAIN TASK_CATALOG
    BY <1>2, SensitiveRated, CatalogIs
  <2>2. t \in AgentKnows
    BY <1>2 DEF Sensitive, AgentKnows
  <2>3. /\ Meta(t).risk = "medium" /\ ~Meta(t).destructive
        /\ Meta(t).mutating <=> t = "copy_file"
    BY <1>2 DEF Sensitive, Meta
  <2>4. QED
    BY <2>1, <2>2, <2>3 DEF Rated, PolicyBlock, AgentBlock, Offered, Risk
<1>3. CASE t \in Responses
  <2>1. Rated(t, "high", TRUE) /\ t \in DOMAIN TASK_CATALOG
    BY <1>3, ResponsesRated, CatalogIs
  <2>2. t \in AgentKnows
    BY <1>3 DEF Responses, AgentKnows
  <2>3. Meta(t).risk = "high" /\ Meta(t).destructive
    BY <1>3 DEF Responses, Meta
  <2>4. QED
    BY <2>1, <2>2, <2>3 DEF Rated, PolicyBlock, AgentBlock, Offered, Risk
<1>4. CASE t = "isolate_host"
  <2>1. t \notin DOMAIN TASK_CATALOG
    BY <1>4, CatalogIs DEF Harmless, Sensitive, Responses
  <2>2. t \notin AgentKnows
    BY <1>4 DEF AgentKnows
  <2>3. QED
    BY <2>1, <2>2 DEF PolicyBlock, AgentBlock, Offered
<1>5. QED
  BY <1>1, <1>2, <1>3, <1>4, CatalogIs DEF Types

\* A JSON value names one type.
IsValue(v) ==
    v = Null \/ (\E s : v = Str(s)) \/ (\E n : v = Num(n)) \/ (\E b : v = Bool(b))

\* In valid arguments what the schema asks for is there, and of its type.
LEMMA TextGiven ==
    ASSUME NEW t, NEW args, ValidArgs(t, args), NEW n,
           n \in DOMAIN TASK_CATALOG[t].args, TASK_CATALOG[t].args[n] = Required(Text)
    PROVE  /\ n \in DOMAIN args /\ "text" \in DOMAIN args[n]
           /\ args[n] # Str(Empty) /\ TextArg(args, n) = args[n].text
<1>1. n \in DOMAIN args /\ args[n] # Str(Empty)
  BY DEF ValidArgs, Required, Text
<1>2. Allows(TASK_CATALOG[t].args[n], args[n])
  BY <1>1 DEF ValidArgs
<1>3. "text" \in DOMAIN args[n]
  BY <1>2 DEF Allows, Required, Text
<1>4. QED
  BY <1>1, <1>3 DEF TextArg

\* A text that is not empty is a text of that content.
LEMMA TextFilled ==
    ASSUME NEW v, IsValue(v), "text" \in DOMAIN v, v # Str(Empty)
    PROVE  v.text # Empty /\ v = Str(v.text)
<1>1. CASE v = Null
  BY <1>1 DEF Null
<1>2. ASSUME NEW n, v = Num(n) PROVE FALSE
  BY <1>2 DEF Num
<1>3. ASSUME NEW b, v = Bool(b) PROVE FALSE
  BY <1>3 DEF Bool
<1>4. ASSUME NEW s, v = Str(s) PROVE v.text # Empty /\ v = Str(v.text)
  BY <1>4 DEF Str
<1>5. QED
  BY <1>1, <1>2, <1>3, <1>4 DEF IsValue

\* A required number is there, and in its range.
LEMMA NumberGiven ==
    ASSUME NEW t, NEW args, ValidArgs(t, args), NEW n, NEW a, NEW b,
           n \in DOMAIN TASK_CATALOG[t].args,
           TASK_CATALOG[t].args[n] = Required(Number(a, b))
    PROVE  \A d : IntArg(args, n, d) \in a..b
<1>1. n \in DOMAIN args /\ args[n] # Str(Empty)
  BY DEF ValidArgs, Required, Number
<1>2. Allows(TASK_CATALOG[t].args[n], args[n])
  BY <1>1 DEF ValidArgs
<1>3. "number" \in DOMAIN args[n] /\ args[n].number \in a..b
  BY <1>2 DEF Allows, Required, Number
<1>4. QED
  BY <1>1, <1>3 DEF IntArg

\* So is one that may be left out, if it was not.
LEMMA NumberAllowed ==
    ASSUME NEW t, NEW args, ValidArgs(t, args), NEW n, NEW a, NEW b,
           n \in DOMAIN args,
           TASK_CATALOG[t].args[n] = Number(a, b)
    PROVE  "number" \in DOMAIN args[n] /\ \A d : IntArg(args, n, d) \in a..b
<1>2. Allows(TASK_CATALOG[t].args[n], args[n])
  BY DEF ValidArgs
<1>3. "number" \in DOMAIN args[n] /\ args[n].number \in a..b
  BY <1>2 DEF Allows, Number
<1>4. QED
  BY <1>3 DEF IntArg

\* The arguments that may be left out, and the types that have them.
LEMMA OptionalAre ==
    /\ TASK_CATALOG["list_directory"].args["max_entries"] = Number(1, 500)
    /\ TASK_CATALOG["windows_event_logs"].args["max_events"] = Number(1, 100)
    /\ TASK_CATALOG["windows_event_logs"].args["profile"] =
         OneOf({"powershell", "auth", "service", "task"})
    /\ TASK_CATALOG["read_file_chunk"].args["offset"] = Number(0, 104857600)
    /\ TASK_CATALOG["registry_query"].args["recursive"] = Flag
BY DEF TASK_CATALOG, Reads

\* Which of the types on offer has each of them.
LEMMA OptionalOf ==
    ASSUME NEW t \in Offered, NEW n \in DOMAIN TASK_CATALOG[t].args
    PROVE  /\ n = "max_entries" => t = "list_directory"
           /\ n \in {"max_events", "profile"} => t = "windows_event_logs"
           /\ n = "offset" => t = "read_file_chunk"
           /\ n = "recursive" => t = "registry_query"
<1>1. t \in DOMAIN TASK_CATALOG /\ ~TASK_CATALOG[t].destructive /\ t # "copy_file"
  BY DEF Offered
<1>2. CASE t \in {"inventory", "process_list", "network_connections", "service_list",
                  "scheduled_tasks", "agent_identity", "listening_ports",
                  "autoruns_collect"}
  BY <1>2 DEF TASK_CATALOG, Reads, NoArgs
<1>3. CASE t \in {"file_exists", "file_hash", "process_tree", "process_detail"}
  BY <1>3 DEF TASK_CATALOG, Reads, OnPath, OnPid
<1>4. CASE t \in {"list_directory", "windows_event_logs", "registry_query"}
  BY <1>4 DEF TASK_CATALOG, Reads
<1>5. CASE t \in {"read_file_chunk", "collect_file"}
  BY <1>5 DEF TASK_CATALOG, Reads, Copy
<1>6. t \notin Responses
  BY <1>1, ResponsesRated DEF Rated
<1>7. QED
  BY <1>1, <1>2, <1>3, <1>4, <1>5, <1>6, CatalogIs DEF Harmless, Sensitive

\* What the two types that copy from a file require.
LEMMA CopyAre ==
    ASSUME NEW t \in {"read_file_chunk", "collect_file"}
    PROVE  /\ {"max_bytes", "reason", "case_id"} \subseteq DOMAIN TASK_CATALOG[t].args
           /\ \A n \in {"reason", "case_id"} : TASK_CATALOG[t].args[n] = Required(Text)
           /\ TASK_CATALOG[t].args["max_bytes"] =
                Required(Number(1, IF t = "collect_file" THEN 10485760 ELSE 65536))
BY DEF TASK_CATALOG, Reads, Copy

\* A valid event log profile is one the agent knows.
LEMMA ProfileKnown ==
    ASSUME NEW args, ValidArgs("windows_event_logs", args), "profile" \in DOMAIN args
    PROVE  TextArg(args, "profile") \in {"powershell", "auth", "service", "task"}
<1>1. Allows(OneOf({"powershell", "auth", "service", "task"}), args["profile"])
  BY OptionalAre DEF ValidArgs
<1>2. QED
  BY <1>1 DEF Allows, OneOf, TextArg

\* Arguments that are valid for a type on offer are taken as they are: the agent
\* fails for none and replaces none, and blocks only a blank reason or case_id.
LEMMA TakenAsTheyAre ==
    ASSUME NEW t \in Offered, NEW args, ValidArgs(t, args),
           \A n \in DOMAIN args : IsValue(args[n])
    PROVE  /\ Fails(t, args) = {} /\ Replaces(t, args) = {}
           /\ \A n \in Blocks(t, args) :
                 n \in {"reason", "case_id"} /\ args[n] = Str(Space)
<1>1. \A n \in DOMAIN args : n \in DOMAIN TASK_CATALOG[t].args
  BY DEF ValidArgs
<1>2. \A n \in {"path"} : t \in {"file_exists", "file_hash", "list_directory",
                              "read_file_chunk", "collect_file"} => TextArg(args, n) # Empty
  <2>1. ASSUME t \in {"file_exists", "file_hash", "list_directory",
                     "read_file_chunk", "collect_file"}
        PROVE  /\ "path" \in DOMAIN TASK_CATALOG[t].args
               /\ TASK_CATALOG[t].args.path = Required(Text)
    BY <2>1 DEF TASK_CATALOG, Reads, OnPath, Copy
  <2>2. QED
    BY <2>1, TextGiven, TextFilled
<1>3. t = "registry_query" => TextArg(args, "key") # Empty
  <2>1. "key" \in DOMAIN TASK_CATALOG["registry_query"].args /\
         TASK_CATALOG["registry_query"].args["key"] = Required(Text)
    BY DEF TASK_CATALOG, Reads
  <2>2. QED
    BY <2>1, TextGiven, TextFilled
<1>4. t \in {"process_tree", "process_detail"} => ~(IntArg(args, "pid", 0) <= 0)
  <2>1. ASSUME t \in {"process_tree", "process_detail"}
        PROVE  "pid" \in DOMAIN TASK_CATALOG[t].args /\
               TASK_CATALOG[t].args["pid"] = Required(Number(1, MaxPid))
    BY <2>1 DEF TASK_CATALOG, Reads, OnPid
  <2>2. ASSUME t \in {"process_tree", "process_detail"}
        PROVE  IntArg(args, "pid", 0) \in 1..MaxPid
    BY <2>1, <2>2, NumberGiven
  <2>3. QED
    BY <2>2
<1>5. Fails(t, args) = {}
  BY <1>2, <1>3, <1>4 DEF Fails
<1>6. Replaces(t, args) = {}
  <2>1. t = "list_directory" => IntArg(args, "max_entries", 100) \in 1..500
    <3>1. ASSUME t = "list_directory", "max_entries" \in DOMAIN args
          PROVE  IntArg(args, "max_entries", 100) \in 1..500
      BY <3>1, NumberAllowed, OptionalAre
    <3>2. "max_entries" \notin DOMAIN args => IntArg(args, "max_entries", 100) = 100
      BY DEF IntArg
    <3>3. QED
      BY <3>1, <3>2
  <2>2. t = "windows_event_logs" => IntArg(args, "max_events", 25) \in 1..100
    <3>1. ASSUME t = "windows_event_logs", "max_events" \in DOMAIN args
          PROVE  IntArg(args, "max_events", 25) \in 1..100
      BY <3>1, NumberAllowed, OptionalAre
    <3>2. "max_events" \notin DOMAIN args => IntArg(args, "max_events", 25) = 25
      BY DEF IntArg
    <3>3. QED
      BY <3>1, <3>2
  <2>3. ASSUME NEW n \in DOMAIN args \cap {"max_entries", "max_events", "offset"}
        PROVE  "number" \in DOMAIN args[n]
    <3>1. \E a, b : TASK_CATALOG[t].args[n] = Number(a, b)
      BY <1>1, OptionalAre, OptionalOf
    <3>2. QED
      BY <3>1, NumberAllowed
  <2>4. "recursive" \in DOMAIN args => "flag" \in DOMAIN args["recursive"]
    <3>1. "recursive" \in DOMAIN args => Allows(Flag, args["recursive"])
      BY <1>1, OptionalAre, OptionalOf DEF ValidArgs
    <3>2. QED
      BY <3>1 DEF Allows, Flag
  <2>5. "profile" \in DOMAIN args => TextArg(args, "profile") # Empty
    <3>1. Empty \notin {"powershell", "auth", "service", "task"}
      BY Zenon DEF Empty
    <3>2. QED
      BY <1>1, <3>1, OptionalOf, ProfileKnown
  <2>6. QED
    BY <2>1, <2>2, <2>3, <2>4, <2>5 DEF Replaces
<1>7. ASSUME NEW n \in Blocks(t, args)
      PROVE  n \in {"reason", "case_id"} /\ args[n] = Str(Space)
  <2>1. t \in {"read_file_chunk", "collect_file"} =>
           IntArg(args, "max_bytes", 0) \in
              1..(IF t = "collect_file" THEN 10485760 ELSE 65536)
    <3> DEFINE most == IF t = "collect_file" THEN 10485760 ELSE 65536
    <3>1. ASSUME t \in {"read_file_chunk", "collect_file"}
          PROVE  /\ "max_bytes" \in DOMAIN TASK_CATALOG[t].args
                 /\ TASK_CATALOG[t].args["max_bytes"] = Required(Number(1, most))
      BY <3>1, CopyAre
    <3> HIDE DEF most
    <3>2. t \in {"read_file_chunk", "collect_file"} =>
             IntArg(args, "max_bytes", 0) \in 1..most
      BY <3>1, NumberGiven
    <3>3. QED
      BY <3>2 DEF most
  <2>2. t = "windows_event_logs" =>
           TextArg(args, "profile") \in {Empty, "powershell", "auth", "service", "task"}
    <3>1. CASE "profile" \in DOMAIN args
      BY <3>1, ProfileKnown
    <3>2. CASE "profile" \notin DOMAIN args
      BY <3>2 DEF TextArg
    <3>3. QED
      BY <3>1, <3>2
  <2>3. /\ n \in {"reason", "case_id"} /\ TextArg(args, n) \in Blank
        /\ t \in {"read_file_chunk", "collect_file"}
    BY <2>1, <2>2 DEF Blocks
  <2>4. n \in DOMAIN TASK_CATALOG[t].args /\ TASK_CATALOG[t].args[n] = Required(Text)
    BY <2>3, CopyAre
  <2>5. /\ n \in DOMAIN args /\ "text" \in DOMAIN args[n]
        /\ args[n] # Str(Empty) /\ TextArg(args, n) = args[n].text
    BY <2>4, TextGiven
  <2>6. args[n].text # Empty /\ args[n] = Str(args[n].text)
    BY <2>5, TextFilled
  <2>7. QED
    BY <2>3, <2>5, <2>6 DEF Blank
<1>8. QED
  BY <1>5, <1>6, <1>7

\* What a request holds is values.
LEMMA GoodValue == \A spec : IsValue(Good(spec))
<1>1. ASSUME NEW spec PROVE IsValue(Good(spec))
  <2>1. CASE spec.type = "boolean" /\ Good(spec) = Bool(TRUE)
    BY <2>1 DEF IsValue
  <2>2. CASE Good(spec) = Num(spec.maximum)
    BY <2>2 DEF IsValue
  <2>3. CASE \E w : Good(spec) = Str(w)
    BY <2>3 DEF IsValue
  <2>4. QED
    BY <2>1, <2>2, <2>3 DEF Good
<1>2. QED
  BY <1>1

\* So is what one of its arguments is given instead.
LEMMA AnyValue == ASSUME NEW spec, NEW v \in Values(spec) PROVE IsValue(v)
<1>1. \/ v \in {Null, Bool(TRUE), Num(0), Str(Empty), Str(Space), Str("text")}
      \/ \E n : v = Num(n)
      \/ \E w : v = Str(w)
  BY DEF Values
<1>2. QED
  BY <1>1 DEF IsValue

\* Good arguments with one left out, given any value, or added, hold values.
LEMMA RequestHoldsValues ==
    ASSUME NEW t, NEW args \in Requests(t), NEW m \in DOMAIN args
    PROVE  IsValue(args[m])
<1> DEFINE schema == IF t \in DOMAIN TASK_CATALOG THEN TASK_CATALOG[t].args ELSE NoArgs
           good == [n \in DOMAIN schema |-> Good(schema[n])]
           Changed == UNION {{[good EXCEPT ![n] = v] : v \in Values(schema[n])} :
                              n \in DOMAIN schema}
           Fewer == {[o \in DOMAIN schema \ {n} |-> good[o]] : n \in DOMAIN schema}
           more == [o \in DOMAIN schema \cup {"force"} |->
                      IF o = "force" THEN Bool(TRUE) ELSE good[o]]
<1>1. \/ args = good
      \/ \E n \in DOMAIN schema : \E v \in Values(schema[n]) : args = [good EXCEPT ![n] = v]
      \/ \E n \in DOMAIN schema : args = [o \in DOMAIN schema \ {n} |-> good[o]]
      \/ args = more
  <2>1. Requests(t) = {good} \cup Changed \cup Fewer \cup {more}
    BY DEF Requests
  <2>2. ASSUME args \in Changed
        PROVE  \E n \in DOMAIN schema : \E v \in Values(schema[n]) :
                   args = [good EXCEPT ![n] = v]
    <3> HIDE DEF schema, good
    <3>1. PICK n \in DOMAIN schema :
             args \in {[good EXCEPT ![n] = v] : v \in Values(schema[n])}
      BY Zenon, <2>2
    <3>2. QED
      BY Zenon, <3>1
  <2>3. ASSUME args \in Fewer
        PROVE  \E n \in DOMAIN schema : args = [o \in DOMAIN schema \ {n} |-> good[o]]
    <3> HIDE DEF schema, good
    <3>1. QED
      BY Zenon, <2>3
  <2> HIDE DEF Changed, Fewer, schema, good, more
  <2>4. args = good \/ args \in Changed \/ args \in Fewer \/ args = more
    BY <2>1
  <2>5. QED
    BY Zenon, <2>2, <2>3, <2>4
<1> HIDE DEF schema
<1>2. \A o \in DOMAIN schema : IsValue(good[o])
  BY GoodValue
<1>3. CASE args = good
  BY <1>2, <1>3
<1>4. ASSUME NEW n \in DOMAIN schema, NEW v \in Values(schema[n]),
             args = [good EXCEPT ![n] = v]
      PROVE  IsValue(args[m])
  BY <1>2, <1>4, AnyValue
<1>5. ASSUME NEW n \in DOMAIN schema, args = [o \in DOMAIN schema \ {n} |-> good[o]]
      PROVE  IsValue(args[m])
  BY <1>2, <1>5
<1>6. CASE args = more
  <2>1. CASE m = "force"
    BY <1>6, <2>1 DEF IsValue
  <2>2. CASE m # "force"
    BY <1>2, <1>6, <2>2
  <2>3. QED
    BY <2>1, <2>2
<1>7. QED
  BY <1>1, <1>3, <1>4, <1>5, <1>6

\* A row of a task, and when it may be there: queued only with valid arguments,
\* blocked by the agent only for one of them or for a file that is too large.
AsTask(t, args, status, by) ==
    [status |-> status, by |-> by,
     row |-> [type |-> t, args |-> args, risk |-> Risk(t), reason |-> PolicyBlock(t)]]
Admitted(t, args, status, by) ==
    /\ \A n \in DOMAIN args : IsValue(args[n])
    /\ PolicyBlock(t) = "none" => ValidArgs(t, args)
    /\ status = "queued" => PolicyBlock(t) = "none"
    /\ status = "blocked_by_policy" /\ by = "agent" =>
          Blocks(t, args) # {} \/ t = "collect_file"
PolicyInv ==
    task # NoTask =>
        \E t \in Types : \E args, status, by :
            task = AsTask(t, args, status, by) /\ Admitted(t, args, status, by)

\* A task is let in, or run, as the policy says.
LEMMA PolicyStep == PolicyInv /\ [PolicyNext]_task => PolicyInv'
<1> SUFFICES ASSUME PolicyInv, [PolicyNext]_task PROVE PolicyInv'
  OBVIOUS
<1>1. ASSUME CreateTask PROVE PolicyInv'
  <2>1. CASE UNCHANGED task
    BY <2>1 DEF PolicyInv
  <2>2. ASSUME NEW t \in Types, NEW args \in Requests(t), PolicyBlock(t) # "none",
               task' = AsTask(t, args, "blocked_by_policy", "server")
        PROVE  PolicyInv'
    <3>1. Admitted(t, args, "blocked_by_policy", "server")
      BY <2>2, RequestHoldsValues DEF Admitted
    <3>2. QED
      BY <2>2, <3>1 DEF PolicyInv
  <2>3. ASSUME NEW t \in Types, NEW args \in Requests(t), PolicyBlock(t) = "none",
               ValidArgs(t, args), task' = AsTask(t, args, "queued", "server")
        PROVE  PolicyInv'
    <3>1. Admitted(t, args, "queued", "server")
      BY <2>3, RequestHoldsValues DEF Admitted
    <3>2. QED
      BY <2>3, <3>1 DEF PolicyInv
  <2>4. QED
    BY <1>1, <2>1, <2>2, <2>3 DEF CreateTask, AsTask
<1>2. ASSUME Execute PROVE PolicyInv'
  <2>1. task # NoTask
    BY <1>2 DEF Execute, NoTask
  <2>2. PICK t, args, status, by :
           /\ t \in Types /\ task = AsTask(t, args, status, by)
           /\ Admitted(t, args, status, by)
    BY <2>1 DEF PolicyInv
  <2>3. task.status = status /\ task.row.type = t /\ task.row.args = args
    BY <2>2 DEF AsTask
  <2>4. AgentBlock(t) = "none"
    BY <1>2, <2>2, <2>3, VerdictsAgree DEF Execute, Admitted
  <2>5. PICK next : /\ task' = [task EXCEPT !.status = next, !.by = "agent"]
                    /\ next = "blocked_by_policy" =>
                         Blocks(t, args) # {} \/ t = "collect_file"
                    /\ next # "queued"
    BY <1>2, <2>3, <2>4 DEF Execute
  <2>6. task' = AsTask(t, args, next, "agent")
    <3> DEFINE row == [type |-> t, args |-> args, risk |-> Risk(t),
                       reason |-> PolicyBlock(t)]
    <3>1. task = [status |-> status, by |-> by, row |-> row]
      BY <2>2 DEF AsTask
    <3> HIDE DEF row
    <3>2. task' = [status |-> next, by |-> "agent", row |-> row]
      BY <2>5, <3>1
    <3>3. QED
      BY <3>2 DEF AsTask, row
  <2>7. Admitted(t, args, next, "agent")
    BY <2>2, <2>5 DEF Admitted
  <2>8. QED
    BY <2>2, <2>6, <2>7 DEF PolicyInv
<1>3. CASE UNCHANGED task
  BY <1>3 DEF PolicyInv
<1>4. QED
  BY <1>1, <1>2, <1>3 DEF PolicyNext

\* The property follows, from what the two tables say of a type on offer.
LEMMA TablesFollow == PolicyInv => TablesAgree
<1> SUFFICES ASSUME PolicyInv, task # NoTask PROVE TablesAgree
  BY DEF TablesAgree
<1>1. PICK t, args, status, by :
         /\ t \in Types /\ task = AsTask(t, args, status, by)
         /\ Admitted(t, args, status, by)
  BY DEF PolicyInv
<1>2. /\ task.row.type = t /\ task.row.args = args /\ task.status = status /\ task.by = by
      /\ task.row.risk = Risk(t) /\ task.row.reason = PolicyBlock(t)
  BY <1>1 DEF AsTask
<1>3. PolicyBlock(t) = AgentBlock(t) /\ (PolicyBlock(t) = "none" <=> t \in Offered)
      /\ (t \in AgentKnows => Risk(t) = Meta(t).risk)
  BY <1>1, VerdictsAgree
<1>4. PolicyBlock(t) = "none" =>
         /\ Fails(t, args) = {} /\ Replaces(t, args) = {}
         /\ \A n \in Blocks(t, args) :
               n \in {"reason", "case_id"} /\ args[n] = Str(Space)
  BY <1>1, <1>3, TakenAsTheyAre DEF Admitted
<1>5. status = "blocked_by_policy" /\ by = "agent" =>
         Blocks(t, args) # {} \/ t = "collect_file"
  BY <1>1 DEF Admitted
<1>6. QED
  BY <1>2, <1>3, <1>4, <1>5 DEF TablesAgree

\* ... and so always.
LEMMA PolicyInvariant == PolicySpec => []PolicyInv
<1>1. PolicyInit => PolicyInv
  BY DEF PolicyInit, PolicyInv
<1>2. QED
  BY <1>1, PolicyStep, PTL DEF PolicySpec

-----------------------------------------------------------------------------
(* The types and bounds of the parts, which the composition collects *)

\* Agents that a scan overtook or whose alert it dropped are agents; the clock and
\* the number of scans keep to their bounds.
HealthBounds ==
    /\ overtaken \cup dropped \subseteq Agents
    /\ time <= MaxClock /\ scans \in 0..MaxScans

\* With the inductive invariant, the types of the scan for silent agents follow: no
\* reading is of the future.
LEMMA HealthTypesFollow == HealthSpec => []HealthTypeOK
<1>1. HealthInit => HealthBounds
  BY HealthAssumption DEF HealthInit, HealthBounds
<1>2. HealthInv /\ HealthBounds /\ [HealthNext]_healthVars => HealthBounds'
  <2> SUFFICES ASSUME HealthInv, HealthBounds, [HealthNext]_healthVars PROVE HealthBounds'
    OBVIOUS
  <2>1. /\ overtaken \subseteq Agents /\ dropped \subseteq Agents
        /\ time \in Nat /\ time <= MaxClock /\ scans \in 0..MaxScans
        /\ MaxScans \in Nat /\ MaxClock \in Nat
        /\ \A s \in Scanners : scan[s].mark \subseteq Agents
    BY HealthAssumption DEF HealthInv, HealthTypes, HealthBounds, Scan
  <2>2. CASE Tick
    BY <2>1, <2>2 DEF Tick, HealthBounds
  <2>3. ASSUME NEW a \in Agents, Heartbeat(a) \/ RevokeAgent(a) PROVE HealthBounds'
    BY <2>1, <2>3 DEF Heartbeat, RevokeAgent, HealthBounds
  <2>4. ASSUME NEW s \in Scanners, FindStale(s) PROVE HealthBounds'
    BY <2>1, <2>4 DEF FindStale, HealthBounds
  <2>5. ASSUME NEW s \in Scanners, FindAgain(s) \/ MarkOffline(s) \/ RaiseOffline(s)
        PROVE  HealthBounds'
    BY <2>1, <2>5 DEF FindAgain, MarkOffline, RaiseOffline, HealthBounds
  <2>6. ASSUME NEW s \in Scanners, ScanFails(s) PROVE HealthBounds'
    BY <2>1, <2>6 DEF ScanFails, HealthBounds
  <2>7. CASE UNCHANGED healthVars
    BY <2>1, <2>7 DEF healthVars, HealthBounds
  <2>8. QED
    BY <2>2, <2>3, <2>4, <2>5, <2>6, <2>7 DEF HealthNext
<1>3. HealthInv /\ HealthBounds => HealthTypeOK
  <2> SUFFICES ASSUME HealthInv, HealthBounds PROVE HealthTypeOK
    OBVIOUS
  <2>1. time \in Nat /\ time \in 0..MaxClock
    BY HealthAssumption DEF HealthInv, HealthTypes, HealthBounds
  <2>2. \A g \in Found : g \in Agents \X (0..time)
    <3>1. \A g \in Found : g \in Agents \X Nat
      BY DEF Found, Gap, HealthInv, HealthTypes, Scan
    <3>2. ASSUME NEW g \in Found PROVE g[2] <= time
      <4>1. g[2] \in Nat /\ g[2] + StaleAfter + 1 <= time /\ StaleAfter \in Nat
        BY <3>1, HealthAssumption DEF HealthInv, GapsAreReal, IsGap
      <4>2. QED
        BY <2>1, <4>1
    <3>3. QED
      BY <2>1, <3>1, <3>2
  <2>3. agents \in [Agents -> [seen : 0..time,
                              status : {"enrolled", "online", "offline", "revoked"}]]
    <3> DEFINE Status == {"enrolled", "online", "offline", "revoked"}
               Row == [seen : Nat, status : Status]
    <3>1. agents \in [Agents -> Row] /\ \A a \in Agents : agents[a].seen <= time
      BY DEF HealthInv, HealthTypes, SeenLast
    <3>2. \A r \in Row : r.seen <= time => r \in [seen : 0..time, status : Status]
      BY <2>1
    <3> HIDE DEF Row, Status
    <3>3. agents \in [Agents -> [seen : 0..time, status : Status]]
      BY <3>1, <3>2
    <3>4. QED
      BY <3>3 DEF Status
  <2>4. offline \subseteq Agents \X (0..time)
    BY <2>2 DEF Found
  <2>5. ASSUME NEW s \in Scanners
        PROVE  /\ scan[s].pc \in {"idle", "again", "mark", "alert"}
               /\ scan[s].found \subseteq Agents \X (0..time)
               /\ scan[s].mark \subseteq Agents
    <3>1. scan[s] \in Scan
      BY DEF HealthInv, HealthTypes
    <3>2. scan[s].found \subseteq Found
      BY DEF Found
    <3>3. QED
      BY <2>2, <3>1, <3>2 DEF Scan
  <2>6. QED
    BY <2>1, <2>3, <2>4, <2>5 DEF HealthTypeOK, HealthBounds
<1>4. QED
  BY <1>1, <1>2, <1>3, HealthInvariant, PTL DEF HealthSpec

\* Objects that were disturbed or uploaded again have keys of requests.
EvidenceBounds ==
    /\ disturbed \subseteq Keys /\ again \subseteq Keys
    /\ uploads \in 0..MaxUploads /\ failures \in 0..MaxFailures

\* An upload under way names its object by what it was asked to store.
LEMMA EvidenceTypesFollow == EvidenceSpec => []EvidenceTypeOK
<1>1. EvidenceInit => EvidenceBounds
  BY EvidenceAssumption DEF EvidenceInit, EvidenceBounds
<1>2. EvidenceInv /\ EvidenceBounds /\ [EvidenceNext]_evidenceVars => EvidenceBounds'
  <2> SUFFICES ASSUME EvidenceInv, EvidenceBounds, [EvidenceNext]_evidenceVars
               PROVE  EvidenceBounds'
    OBVIOUS
  <2>1. ASSUME NEW u \in Uploaders, upload[u].pc # "idle"
        PROVE  Key(upload[u].req) \in Keys
    BY <2>1, UploadIs DEF EvidenceInv
  <2>2. ASSUME NEW u \in Uploaders, NEW req \in Request, Receive(u, req)
        PROVE  EvidenceBounds'
    BY <2>2, EvidenceAssumption DEF Receive, EvidenceBounds
  <2>3. ASSUME NEW u \in Uploaders, Open(u) PROVE EvidenceBounds'
    BY <2>1, <2>3 DEF Open, EvidenceBounds
  <2>4. ASSUME NEW u \in Uploaders, Write(u) \/ Commit(u) PROVE EvidenceBounds'
    BY <2>4 DEF Write, Commit, EvidenceBounds
  <2>5. ASSUME NEW u \in Uploaders, Interrupt(u) PROVE EvidenceBounds'
    BY <2>1, <2>5, EvidenceAssumption DEF Interrupt, EvidenceBounds
  <2>6. CASE UNCHANGED evidenceVars
    BY <2>6 DEF evidenceVars, EvidenceBounds
  <2>7. QED
    BY <2>2, <2>3, <2>4, <2>5, <2>6 DEF EvidenceNext
<1>3. EvidenceInv /\ EvidenceBounds => EvidenceTypeOK
  BY DEF EvidenceInv, EvidenceTypes, Upload, EvidenceBounds, EvidenceTypeOK
<1>4. QED
  BY <1>1, <1>2, <1>3, EvidenceInvariant, PTL DEF EvidenceSpec

\* A server that starts has a database it supports and a profile that exists.
LEMMA StartupTypesFollow == StartupSpec => []StartupTypeOK
<1>1. StartupInit => StartupTypeOK
  BY DEF StartupInit, StartupTypeOK
<1>2. StartupTypeOK /\ [StartupNext]_startupVars => StartupTypeOK'
  <2> SUFFICES ASSUME StartupTypeOK, [StartupNext]_startupVars PROVE StartupTypeOK'
    OBVIOUS
  <2> DEFINE Reasons == {"config:unsupported_agent_naming_profile", "package:binary_gone",
                         "package:production_requires_https_server_url",
                         "start:blank_enrollment_token"}
             Tables == [Databases -> [Bootstrap \cup Minted -> {"none", "live", "revoked"}]]
             Profiles == {"dev", "production"}
  <2>stored. ASSUME tokens \in Tables, NEW d \in Databases,
                    NEW t \in Bootstrap \cup Minted, NEW state \in {"live", "revoked"},
                    tokens' = [tokens EXCEPT ![d][t] = state]
             PROVE  tokens' \in Tables
    <3>1. tokens' = [tokens EXCEPT ![d] = [tokens[d] EXCEPT ![t] = state]]
      BY <2>stored
    <3>2. QED
      BY <2>stored, <3>1
  <2>1. ASSUME NEW s \in Settings, Refusals(s) = {}
        PROVE  ControlPlaneStore(s) \in Databases /\ s.profile \in {"dev", "production"}
    <3>1. s.profile # ""
      <4>1. s.profile = "" => "profile_required" \in {why \in {"profile_required"} : s.profile = ""}
        OBVIOUS
      <4>2. QED
        BY <2>1, <4>1 DEF Refusals
    <3>2. s.profile # "staging"
      <4>1. s.profile = "staging" =>
               "invalid_profile" \in {why \in {"invalid_profile"} : s.profile = "staging"}
        OBVIOUS
      <4>2. QED
        BY <2>1, <4>1 DEF Refusals
    <3>3. ControlPlaneStore(s) # "mysql"
      <4>1. ControlPlaneStore(s) = "mysql" =>
               "unsupported_control_plane_store" \in
                   {why \in {"unsupported_control_plane_store"} : ControlPlaneStore(s) = "mysql"}
        OBVIOUS
      <4>2. QED
        BY <2>1, <4>1 DEF Refusals
    <3>4. QED
      BY <3>1, <3>2, <3>3 DEF Settings, ControlPlaneStore, Databases
  <2>2. ASSUME StartServer PROVE StartupTypeOK'
    <3>1. PICK s \in Settings : Refusals(s) = {} /\ Start(s)
      BY <2>2 DEF StartServer, Startable
    <3> DEFINE d == ControlPlaneStore(s)
               Causes == Minted \X Reasons \X Profiles
    <3>2. d \in Databases /\ s.profile \in Profiles
      BY <2>1, <3>1
    <3>3. server'.db \in Databases /\ server'.profile \in Profiles
      BY <3>1, <3>2 DEF Start
    <3>4. tokens \in Tables /\ unknown \subseteq Causes /\ revived \subseteq Profiles
      BY DEF StartupTypeOK
    <3>5. CASE ~CreatesDevToken(s)
      BY <3>1, <3>3, <3>4, <3>5 DEF Start, StartupTypeOK
    <3>6. CASE CreatesDevToken(s)
      <4>1. PICK t \in BootstrapTokens(s) :
               /\ tokens' = [tokens EXCEPT ![d][t] = "live"]
               /\ unknown' = unknown \cup
                      {<<t, why, s.profile>> : why \in
                           {w \in {"start:blank_enrollment_token"} : s.enrollment_token = ""}}
               /\ revived' = revived \cup {p \in {s.profile} : tokens[d][t] = "revoked"}
        BY <3>1, <3>6 DEF Start
      <4>2. t \in Bootstrap \cup Minted /\ (s.enrollment_token = "" => t \in Minted)
        BY <4>1 DEF BootstrapTokens, Unused, Settings, Bootstrap
      <4>3. tokens' \in Tables
        BY <2>stored, <3>2, <3>4, <4>1, <4>2
      <4>4. {<<t, why, s.profile>> : why \in
                 {w \in {"start:blank_enrollment_token"} : s.enrollment_token = ""}}
            \subseteq Causes
        <5> DEFINE Why == {w \in {"start:blank_enrollment_token"} : s.enrollment_token = ""}
        <5>1. \A why \in Why : why \in Reasons /\ t \in Minted
          BY <4>2
        <5> HIDE DEF Why
        <5>2. {<<t, why, s.profile>> : why \in Why} \subseteq Causes
          BY <3>2, <5>1
        <5>3. QED
          BY <5>2 DEF Why
      <4>5. unknown' \subseteq Causes /\ revived' \subseteq Profiles
        BY <3>2, <3>4, <4>1, <4>4
      <4>6. QED
        BY <3>3, <4>3, <4>5 DEF StartupTypeOK
    <3>7. QED
      BY <3>5, <3>6
  <2>3. ASSUME StopServer PROVE StartupTypeOK'
    BY <2>3 DEF StopServer, StartupTypeOK
  <2>4. ASSUME Administer PROVE StartupTypeOK'
    <3> DEFINE Causes == Minted \X Reasons \X Profiles
    <3>1. /\ server.db \in Databases /\ server.profile \in Profiles
          /\ UNCHANGED <<server, revived>>
          /\ tokens \in Tables /\ unknown \subseteq Causes
      BY <2>4 DEF Administer, StartupTypeOK
    <3>2. ASSUME NEW t \in Bootstrap \cup Minted, NEW state \in {"live", "revoked"},
                 tokens' = [tokens EXCEPT ![server.db][t] = state]
          PROVE  tokens' \in Tables
      <4>1. PICK d \in Databases : d = server.db
        BY <3>1
      <4>2. QED
        BY <2>stored, <3>1, <3>2, <4>1
    <3>3. ASSUME NEW lost \in SUBSET Reasons, Make(lost)
          PROVE  tokens' \in Tables /\ unknown' \subseteq Causes
      <4>1. PICK t \in Minted :
               /\ tokens' = [tokens EXCEPT ![server.db][t] = "live"]
               /\ unknown' = unknown \cup {<<t, why, server.profile>> : why \in lost}
        BY <3>3 DEF Make, Unused
      <4>2. tokens' \in Tables
        BY <3>2, <3>1, <4>1
      <4>3. {<<t, why, server.profile>> : why \in lost} \subseteq Causes
        BY <3>1
      <4>4. QED
        BY <3>1, <4>1, <4>2, <4>3
    <3>4. ASSUME RevokeToken PROVE tokens' \in Tables /\ unknown' = unknown
      <4>1. PICK t \in Bootstrap \cup Minted :
               tokens' = [tokens EXCEPT ![server.db][t] = "revoked"] /\ unknown' = unknown
        BY <3>4 DEF RevokeToken
      <4>2. tokens' \in Tables
        BY <3>2, <3>1, <4>1
      <4>3. QED
        BY <4>1, <4>2
    <3>5. \/ UNCHANGED <<tokens, unknown>>
          \/ \E lost \in SUBSET Reasons : Make(lost)
          \/ RevokeToken
      BY <2>4 DEF Administer, CreateToken, DownloadConfig, DownloadPackage, Refused
    <3>6. QED
      BY <3>1, <3>3, <3>4, <3>5 DEF StartupTypeOK
  <2>5. CASE UNCHANGED startupVars
    BY <2>5 DEF startupVars, StartupTypeOK
  <2>6. QED
    BY <2>2, <2>3, <2>4, <2>5 DEF StartupNext
<1>3. QED
  BY <1>1, <1>2, PTL DEF StartupSpec

\* A task ends in the statuses its executor reports.
LEMMA PolicyTypesFollow == PolicySpec => []PolicyTypeOK
<1>1. PolicyInit => PolicyTypeOK
  BY DEF PolicyInit, NoTask, PolicyTypeOK
<1>2. PolicyInv /\ PolicyTypeOK /\ [PolicyNext]_task => PolicyTypeOK'
  <2> SUFFICES ASSUME PolicyInv, PolicyTypeOK, [PolicyNext]_task PROVE PolicyTypeOK'
    OBVIOUS
  <2>1. ASSUME CreateTask PROVE PolicyTypeOK'
    BY <2>1 DEF CreateTask, PolicyTypeOK
  <2>2. ASSUME Execute PROVE PolicyTypeOK'
    <3>1. PICK next \in {"blocked_by_policy", "failed", "succeeded"} :
             task' = [task EXCEPT !.status = next, !.by = "agent"]
      BY <2>2 DEF Execute
    <3>2. task # NoTask
      BY <2>2 DEF Execute, NoTask
    <3>3. PICK t, args, status, by : task = AsTask(t, args, status, by)
      BY <3>2 DEF PolicyInv
    <3>4. task'.status = next
      BY <3>1, <3>3 DEF AsTask
    <3>5. QED
      BY <3>4 DEF PolicyTypeOK
  <2>3. CASE UNCHANGED task
    BY <2>3 DEF PolicyTypeOK
  <2>4. QED
    BY <2>1, <2>2, <2>3 DEF PolicyNext
<1>3. QED
  BY <1>1, <1>2, PolicyInvariant, PTL DEF PolicySpec

\* Versions count from one, and runs and overlaps are of hunts that exist.
SettingsBounds ==
    /\ config \in [version : Nat \ {0}, body : Bodies \cup {NoCriterion}]
    /\ \A w \in Admins : Putting(w) => admin[w].version >= 1
    /\ \A i \in DOMAIN huntRuns : huntRuns[i].hunt \in HuntIds
    /\ crossed \subseteq HuntIds /\ changes \in 0..MaxChanges

\* A PUT computes its version before it writes it, and a hunt is never deleted.
LEMMA SettingsTypesFollow == SettingsSpec => []SettingsTypeOK
<1>1. SettingsInit => SettingsBounds
  BY SettingsAssumption DEF SettingsInit, SettingsBounds, Waiting, Putting
<1>2. SettingsInv /\ SettingsBounds /\ [SettingsNext]_settingsVars => SettingsBounds'
  <2> SUFFICES ASSUME SettingsInv, SettingsBounds, [SettingsNext]_settingsVars
               PROVE  SettingsBounds'
    OBVIOUS
  <2>1. /\ DOMAIN admin = Admins /\ Len(hunts) \in Nat /\ HuntIds = 1..Len(hunts)
        /\ hunts \in Seq([criteria : CriteriaSet, enabled : BOOLEAN])
        /\ huntRuns \in Seq([hunt : Nat, criteria : CriteriaSet])
        /\ config.version \in Nat /\ config.version >= 1
        /\ MaxChanges \in Nat /\ changes \in 0..MaxChanges
    BY SettingsAssumption DEF SettingsInv, SettingsTypes, SettingsBounds, HuntIds
  <2>2. NewRequest => changes' \in 0..MaxChanges
    BY <2>1 DEF NewRequest
  <2>3. ASSUME NEW w \in Admins, NEW job, admin' = [admin EXCEPT ![w] = job],
               job.pc = "put" => job.version >= 1
        PROVE  \A v \in Admins : Putting(v)' => admin'[v].version >= 1
    BY <2>1, <2>3 DEF Putting, SettingsBounds
  <2>4. ASSUME NEW w \in Admins, NEW b \in Bodies, NEW v \in 1..MaxVersion,
               PutRead(w, b, v)
        PROVE  SettingsBounds'
    <3> DEFINE job == [pc |-> "put", hunt |-> 0, body |-> b,
                       version |-> NextVersion(v, config.version)]
    <3>1. admin' = [admin EXCEPT ![w] = job] /\ job.version >= 1
      BY <2>1, <2>4 DEF PutRead, NextVersion
    <3> HIDE DEF job
    <3>2. \A u \in Admins : Putting(u)' => admin'[u].version >= 1
      BY <2>3, <3>1
    <3>3. QED
      BY <2>2, <2>4, <3>2 DEF PutRead, SettingsBounds, HuntIds
  <2>5. ASSUME NEW w \in Admins, PutWrite(w) PROVE SettingsBounds'
    <3>1. admin' = [admin EXCEPT ![w] = Waiting] /\ Waiting.pc # "put"
      BY <2>5 DEF PutWrite, Waiting
    <3>2. \A u \in Admins : Putting(u)' => admin'[u].version >= 1
      BY <2>3, <3>1
    <3>3. admin[w].version \in Nat \ {0} /\ admin[w].body \in Bodies
      BY <2>5 DEF PutWrite, Putting, SettingsInv, AdminsOK, AdminOK, SettingsBounds
    <3>4. QED
      BY <2>5, <3>2, <3>3 DEF PutWrite, SettingsBounds, HuntIds
  <2>6. ASSUME NEW w \in Admins, NEW h \in HuntIds,
               NEW i \in Indicators \cup {NoCriterion, Keep},
               NEW q \in Queries \cup {NoCriterion, Keep}, NEW e \in BOOLEAN \cup {Keep},
               UpdateRead(w, h, i, q, e)
        PROVE  SettingsBounds'
    <3>1. PICK next : admin' = [admin EXCEPT ![w] =
             [pc |-> "update", hunt |-> h, next |-> next, indicator |-> i, enabled |-> e]]
      BY <2>6 DEF UpdateRead
    <3> DEFINE job ==
             [pc |-> "update", hunt |-> h, next |-> next, indicator |-> i, enabled |-> e]
    <3>2. job.pc # "put"
      OBVIOUS
    <3>3. admin' = [admin EXCEPT ![w] = job]
      BY <3>1
    <3> HIDE DEF job
    <3>4. \A u \in Admins : Putting(u)' => admin'[u].version >= 1
      BY <2>3, <3>2, <3>3
    <3>5. UNCHANGED <<config, hunts, huntRuns>> /\ crossed' \subseteq HuntIds
      BY <2>6 DEF UpdateRead, SettingsBounds
    <3>6. changes' \in 0..MaxChanges
      BY <2>2, <2>6 DEF UpdateRead
    <3>7. QED
      BY <3>4, <3>5, <3>6 DEF SettingsBounds, HuntIds
  <2>7. ASSUME NEW w \in Admins, UpdateWrite(w) PROVE SettingsBounds'
    <3>1. admin' = [admin EXCEPT ![w] = Waiting] /\ Waiting.pc # "put"
      BY <2>7 DEF UpdateWrite, Waiting
    <3>2. \A u \in Admins : Putting(u)' => admin'[u].version >= 1
      BY <2>3, <3>1
    <3>3. HuntIds' = HuntIds
      BY <2>1, <2>7 DEF UpdateWrite, HuntIds
    <3>4. QED
      BY <2>7, <3>2, <3>3 DEF UpdateWrite, SettingsBounds
  <2>8. ASSUME NEW w \in Admins, NEW h \in HuntIds, RunRead(w, h) PROVE SettingsBounds'
    <3> DEFINE job == [pc |-> "run", hunt |-> h, criteria |-> hunts[h].criteria]
    <3>1. admin' = [admin EXCEPT ![w] = job] /\ job.pc # "put"
      BY <2>8 DEF RunRead
    <3> HIDE DEF job
    <3>2. \A u \in Admins : Putting(u)' => admin'[u].version >= 1
      BY <2>3, <3>1
    <3>3. QED
      BY <2>2, <2>8, <3>2 DEF RunRead, SettingsBounds, HuntIds
  <2>9. ASSUME NEW w \in Admins, RunRecord(w) PROVE SettingsBounds'
    <3> DEFINE run == [hunt |-> admin[w].hunt, criteria |-> admin[w].criteria]
    <3>1. admin' = [admin EXCEPT ![w] = Waiting] /\ Waiting.pc # "put"
      BY <2>9 DEF RunRecord, Waiting
    <3>2. \A u \in Admins : Putting(u)' => admin'[u].version >= 1
      BY <2>3, <3>1
    <3>3. admin[w].hunt \in HuntIds /\ admin[w].criteria \in CriteriaSet
      BY <2>9 DEF RunRecord, SettingsInv, AdminsOK, AdminOK
    <3>4. run \in [hunt : Nat, criteria : CriteriaSet] /\ run.hunt \in HuntIds
      BY <2>1, <3>3
    <3>5. huntRuns' = Append(huntRuns, run) /\ UNCHANGED <<config, hunts, crossed, changes>>
      BY <2>9 DEF RunRecord
    <3> HIDE DEF run
    <3>6. \A i \in DOMAIN huntRuns' : huntRuns'[i].hunt \in HuntIds
      <4>1. /\ huntRuns' \in Seq([hunt : Nat, criteria : CriteriaSet])
            /\ Len(huntRuns') = Len(huntRuns) + 1 /\ huntRuns'[Len(huntRuns) + 1] = run
            /\ \A i \in DOMAIN huntRuns : huntRuns'[i] = huntRuns[i]
        BY <2>1, <3>4, <3>5
      <4>2. \A i \in DOMAIN huntRuns' : i \in DOMAIN huntRuns \/ i = Len(huntRuns) + 1
        BY <2>1, <4>1
      <4>3. QED
        BY <3>4, <4>1, <4>2 DEF SettingsBounds
    <3>7. QED
      BY <3>2, <3>5, <3>6 DEF SettingsBounds, HuntIds
  <2>10. ASSUME NEW c \in CriteriaSet, NEW e \in BOOLEAN, CreateHunt(c, e)
         PROVE  SettingsBounds'
    <3>1. hunts' = Append(hunts, [criteria |-> c, enabled |-> e])
          /\ UNCHANGED <<config, huntRuns, admin, crossed>>
      BY <2>10 DEF CreateHunt
    <3>2. HuntIds \subseteq HuntIds'
      BY <2>1, <3>1 DEF HuntIds
    <3>3. changes' \in 0..MaxChanges
      BY <2>2, <2>10 DEF CreateHunt
    <3>4. QED
      BY <3>1, <3>2, <3>3 DEF SettingsBounds, Putting
  <2>11. CASE UNCHANGED settingsVars
    BY <2>11 DEF settingsVars, SettingsBounds, HuntIds, Putting
  <2>12. QED
    BY <2>4, <2>5, <2>6, <2>7, <2>8, <2>9, <2>10, <2>11 DEF SettingsNext
<1>3. SettingsInv /\ SettingsBounds => SettingsTypeOK
  <2> SUFFICES ASSUME SettingsInv, SettingsBounds PROVE SettingsTypeOK
    OBVIOUS
  <2> DEFINE Run == [hunt : Nat, criteria : CriteriaSet]
             KnownRun == [hunt : HuntIds, criteria : CriteriaSet]
  <2>1. huntRuns \in Seq(Run) /\ \A i \in DOMAIN huntRuns : huntRuns[i].hunt \in HuntIds
    BY DEF SettingsInv, SettingsTypes, SettingsBounds
  <2>2. \A r \in Run : r.hunt \in HuntIds => r \in KnownRun
    OBVIOUS
  <2> HIDE DEF Run, KnownRun
  <2>3. huntRuns \in Seq(KnownRun)
    BY <2>1, <2>2
  <2>4. \A w \in Admins : admin[w].pc \in {"update", "run"} => admin[w].hunt \in HuntIds
    BY DEF SettingsInv, AdminsOK, AdminOK
  <2>5. QED
    BY <2>3, <2>4 DEF SettingsInv, SettingsTypes, SettingsBounds, SettingsTypeOK, KnownRun
<1>4. QED
  BY <1>1, <1>2, <1>3, SettingsInvariant, PTL DEF SettingsSpec

-----------------------------------------------------------------------------
(* Investigation *)

\* An event as it is stored: what any event of the process has, and its number.
StoredEvent ==
    [id : Nat, event_type : {"network_connection", "process_start", "process_stop"},
     host : {Endpoint}, process_entity_id : Processes, process_id : {PidOf[x] : x \in Processes},
     process_name : Texts, parent_process_id : {PidOf[x] : x \in Processes} \cup {Absent},
     remote_ip : Remotes \cup {Absent}, parent_process_entity_id : Processes \cup {Absent},
     missing_parent : BOOLEAN]

\* Events are numbered as they arrive.
InvestigationInv ==
    /\ stored \in Seq(StoredEvent) /\ Len(stored) <= MaxEvents
    /\ \A i \in DOMAIN stored : stored[i].id = i
    /\ parentOf \in [Processes -> Processes \cup {Absent}]

\* Whatever is seen of a process, as it starts, stops or connects, is an event.
LEMMA EventIs ==
    ASSUME parentOf \in [Processes -> Processes \cup {Absent}],
           NEW x \in Processes, NEW e \in EventsOf(x)
    PROVE  e \in StoredEvent
<1> DEFINE base == [id |-> 0, event_type |-> "network_connection",
                 host |-> Endpoint, process_entity_id |-> x, process_id |-> PidOf[x],
                 process_name |-> NameOf[x], parent_process_id |-> Absent,
                 remote_ip |-> Absent, parent_process_entity_id |-> Absent,
                 missing_parent |-> FALSE]
           p == parentOf[x]
           lifecycle == [base EXCEPT !.parent_process_id = IF p = Absent THEN p ELSE PidOf[p]]
<1>1. base \in StoredEvent
  BY InvestigationAssumption DEF StoredEvent
<1>2. p \in Processes \cup {Absent}
  OBVIOUS
<1> DEFINE Lifecycle(type, q) ==
             [lifecycle EXCEPT !.event_type = type, !.parent_process_entity_id = q,
                               !.missing_parent = p # Absent /\ q = Absent]
           Connections == {[base EXCEPT !.remote_ip = r] : r \in RemotesOf[x]}
           Lifecycles == {Lifecycle(type, q) : type \in {"process_start", "process_stop"},
                                               q \in {p, Absent}}
<1>3. EventsOf(x) = Connections \cup Lifecycles
  BY DEF EventsOf
<1>4. ASSUME e \in Lifecycles
      PROVE  \E type \in {"process_start", "process_stop"}, q \in {p, Absent} :
                e = Lifecycle(type, q)
  <2> HIDE DEF Lifecycle, p
  <2>1. QED
    BY <1>4
<1> HIDE DEF base, p, Lifecycles
<1>5. lifecycle \in StoredEvent
  BY <1>1, <1>2 DEF StoredEvent
<1> HIDE DEF lifecycle
<1>6. ASSUME NEW type \in {"process_start", "process_stop"}, NEW q \in {p, Absent}
      PROVE  Lifecycle(type, q) \in StoredEvent
  <2>1. (p # Absent /\ q = Absent) \in BOOLEAN
    OBVIOUS
  <2>2. q \in Processes \cup {Absent}
    BY <1>2
  <2>3. QED
    BY <1>5, <2>1, <2>2 DEF StoredEvent
<1>7. ASSUME NEW r \in RemotesOf[x] PROVE [base EXCEPT !.remote_ip = r] \in StoredEvent
  <2>1. r \in Remotes
    BY DEF Remotes
  <2>2. QED
    BY <1>1, <2>1 DEF StoredEvent
<1>8. QED
  BY <1>3, <1>4, <1>6, <1>7

\* So the store has events, whatever is lost or late.
LEMMA InvestigationInvariant == InvestigationSpec => []InvestigationInv
<1>1. InvestigationInit => InvestigationInv
  BY InvestigationAssumption DEF InvestigationInit, InvestigationInv
<1>2. InvestigationInv /\ [InvestigationNext]_investigationVars => InvestigationInv'
  <2> SUFFICES ASSUME InvestigationInv, [InvestigationNext]_investigationVars
               PROVE  InvestigationInv'
    OBVIOUS
  <2>1. ASSUME NEW x \in Processes, Observe(x) PROVE InvestigationInv'
    <3>1. PICK e \in EventsOf(x) : stored' = Append(stored, [e EXCEPT !.id = Len(stored) + 1])
      BY <2>1 DEF Observe
    <3> DEFINE new == [e EXCEPT !.id = Len(stored) + 1]
    <3>2. stored \in Seq(StoredEvent) /\ Len(stored) \in Nat /\ DOMAIN stored = 1..Len(stored)
      BY DEF InvestigationInv
    <3>3. new \in StoredEvent /\ new.id = Len(stored) + 1
      <4>1. e \in StoredEvent
        BY <3>1, EventIs DEF InvestigationInv
      <4>2. QED
        BY <3>2, <4>1 DEF StoredEvent
    <3>4. UNCHANGED parentOf
      BY <2>1 DEF Observe
    <3> HIDE DEF new
    <3>5. /\ stored' \in Seq(StoredEvent) /\ Len(stored') = Len(stored) + 1
          /\ stored'[Len(stored) + 1] = new
          /\ \A i \in DOMAIN stored : stored'[i] = stored[i]
      BY <3>1, <3>2, <3>3 DEF new
    <3>6. \A i \in DOMAIN stored' : i \in DOMAIN stored \/ i = Len(stored) + 1
      BY <3>2, <3>5
    <3>7. Len(stored') <= MaxEvents
      BY <2>1, <3>2, <3>5, InvestigationAssumption DEF Observe
    <3>8. QED
      BY <3>3, <3>4, <3>5, <3>6, <3>7 DEF InvestigationInv
  <2>2. CASE UNCHANGED investigationVars
    BY <2>2 DEF investigationVars, InvestigationInv
  <2>3. QED
    BY <2>1, <2>2 DEF InvestigationNext
<1>3. QED
  BY <1>1, <1>2, PTL DEF InvestigationSpec

\* ... each of a process of the endpoint.
LEMMA InvestigationTypesFollow == InvestigationInv => InvestigationTypeOK
<1> SUFFICES ASSUME InvestigationInv PROVE InvestigationTypeOK
  OBVIOUS
<1>1. \A e \in StoredEvent : Entity(e) \in Processes
  BY DEF StoredEvent, Entity
<1>2. \A i \in DOMAIN stored : stored[i] \in StoredEvent
  BY DEF InvestigationInv
<1>3. QED
  BY <1>1, <1>2, InvestigationAssumption DEF InvestigationInv, InvestigationTypeOK

\* What is on a page is among what was found.
LEMMA LatestAreFound ==
    ASSUME NEW S, NEW s \in Seq(S), NEW limit \in Nat
    PROVE  \A e \in ToSet(Latest(s, limit)) : \E i \in DOMAIN s : e = s[i]
<1> DEFINE from == IF Len(s) > limit THEN Len(s) - limit + 1 ELSE 1
           page == SubSeq(s, from, Len(s))
<1>1. from \in Nat /\ from >= 1 /\ from <= Len(s) + 1 /\ Len(s) \in Nat
  OBVIOUS
<1> HIDE DEF from
<1>2. /\ Len(page) \in Nat /\ Len(page) <= Len(s)
      /\ \A i \in 1..Len(page) : page[i] = s[from + i - 1] /\ from + i - 1 \in DOMAIN s
  BY <1>1
<1> HIDE DEF page
<1>3. Latest(s, limit) = Reverse(page)
  BY DEF Latest, page, from
<1>4. \A e \in ToSet(Reverse(page)) : \E i \in 1..Len(page) : e = page[i]
  BY <1>2 DEF ToSet, Reverse
<1>5. QED
  BY <1>2, <1>3, <1>4

-----------------------------------------------------------------------------
(* The workspace of an alert *)

\* A set of numbers has a least one.
LEMMA LeastOf ==
    ASSUME NEW N \in SUBSET Nat, N # {}
    PROVE  \E i \in N : \A j \in N : i <= j
<1>1. PICK i \in N : \A j \in N : <<j, i>> \notin OpToRel(<, Nat)
  BY NatLessThanWellFounded, WFMin
<1>2. \A j \in N : ~(j < i)
  BY <1>1, Zenon DEF OpToRel
<1>3. ASSUME NEW j \in N PROVE i <= j
  <2>1. i \in Nat /\ j \in Nat /\ ~(j < i)
    BY <1>2
  <2>2. QED
    BY <2>1
<1>4. QED
  BY <1>3

\* Induction up to a number, over a set.
LEMMA UpTo ==
    ASSUME NEW l \in Nat, NEW G, 0 \in G, \A n \in 1..l : n - 1 \in G => n \in G
    PROVE  0..l \subseteq G
<1> DEFINE Bad == (0..l) \ G
<1>1. ASSUME Bad # {} PROVE FALSE
  <2>1. PICK m \in Bad : \A k \in Bad : m <= k
    <3>1. Bad \in SUBSET Nat
      OBVIOUS
    <3> HIDE DEF Bad
    <3>2. QED
      BY <1>1, <3>1, LeastOf
  <2>2. m \in 1..l /\ m - 1 \in 0..l /\ ~(m <= m - 1)
    OBVIOUS
  <2>3. m - 1 \notin Bad
    <3> HIDE DEF Bad
    <3>1. QED
      BY <2>1, <2>2
  <2>4. QED
    BY <2>2, <2>3
<1>2. QED
  BY <1>1

\* A needle between two wildcards.
LEMMA PatternIs ==
    ASSUME NEW v \in Seq(Chars)
    PROVE  LET p == <<"%">> \o v \o <<"%">> IN
           /\ Len(v) \in Nat /\ Len(p) = Len(v) + 2 /\ DOMAIN p = 1..(Len(v) + 2)
           /\ p[1] = "%" /\ p[Len(v) + 2] = "%"
           /\ \A k \in DOMAIN v : p[k + 1] = v[k] /\ v[k] \in Chars
           /\ \A k \in 2..(Len(v) + 1) : k - 1 \in DOMAIN v /\ p[k] = v[k - 1]
<1> DEFINE q == <<"%">> \o v
           p == q \o <<"%">>
           W == Chars \cup {"%"}
<1>1. v \in Seq(W) /\ <<"%">> \in Seq(W) /\ Len(<<"%">>) = 1 /\ <<"%">>[1] = "%"
  OBVIOUS
<1>2. Len(v) \in Nat /\ DOMAIN v = 1..Len(v)
  OBVIOUS
<1> DEFINE one == <<"%">>
<1>3. one \in Seq(W) /\ Len(one) = 1 /\ one[1] = "%"
  BY <1>1
<1> HIDE DEF one, W
<1>4. /\ q = one \o v /\ q \in Seq(W) /\ Len(q) = Len(v) + 1
      /\ q[1] = "%" /\ \A k \in 1..Len(v) : q[k + 1] = v[k]
  BY <1>1, <1>2, <1>3 DEF one
<1> HIDE DEF q
<1>5. /\ p = q \o one /\ Len(p) = Len(v) + 2 /\ DOMAIN p = 1..(Len(v) + 2)
      /\ p[Len(v) + 2] = "%" /\ \A k \in 1..(Len(v) + 1) : p[k] = q[k]
  BY <1>1, <1>2, <1>3, <1>4 DEF one
<1> HIDE DEF p
<1>6. p = <<"%">> \o v \o <<"%">>
  BY DEF p, q
<1>7. \A k \in DOMAIN v : p[k + 1] = v[k] /\ v[k] \in Chars
  BY <1>2, <1>4, <1>5
<1>8. \A k \in 2..(Len(v) + 1) : k - 1 \in DOMAIN v /\ p[k] = v[k - 1]
  BY <1>2, <1>7
<1>9. p[1] = "%"
  BY <1>2, <1>4, <1>5
<1>10. QED
  BY <1>2, <1>5, <1>6, <1>7, <1>8, <1>9

\* Where nothing escapes, the letters are all that is no wildcard.
LEMMA NothingEscapes ==
    ASSUME NEW store, NEW v \in Seq(Chars),
           store # "postgresql" \/ \A k \in DOMAIN v : v[k] # Backslash
    PROVE  LET p == <<"%">> \o v \o <<"%">> IN
           Escapes(store, p) = {} /\ Literals(store, p) = {k \in DOMAIN p : p[k] \notin Wildcards}
<1> DEFINE p == <<"%">> \o v \o <<"%">>
<1> HIDE DEF p
<1>1. CASE store # "postgresql"
  <2>1. Escapes(store, p) = {}
    BY <1>1 DEF Escapes
  <2>2. QED
    BY <2>1 DEF Literals, p
<1>2. CASE \A k \in DOMAIN v : v[k] # Backslash
  <2>1. ASSUME NEW k \in DOMAIN p PROVE k \in Nat /\ p[k] # Backslash
    <3>1. /\ DOMAIN p = 1..(Len(v) + 2) /\ Len(v) \in Nat
          /\ p[1] = "%" /\ p[Len(v) + 2] = "%"
          /\ \A i \in 2..(Len(v) + 1) : i - 1 \in DOMAIN v /\ p[i] = v[i - 1]
      BY PatternIs DEF p
    <3>2. k = 1 \/ k = Len(v) + 2 \/ k \in 2..(Len(v) + 1)
      BY <3>1
    <3>3. "%" # Backslash
      BY DEF Backslash
    <3>4. QED
      BY <1>2, <3>1, <3>2, <3>3
  <2>2. ASSUME NEW k \in DOMAIN p
        PROVE  {j \in 1..k : \A i \in j..k : p[i] = Backslash} = {}
    <3>1. \A j \in 1..k : k \in j..k
      BY <2>1
    <3>2. QED
      BY <2>1, <3>1
  <2>3. Cardinality({}) % 2 # 1
    BY FS_EmptySet
  <2>4. Escapes(store, p) = {}
    BY <2>2, <2>3 DEF Escapes
  <2>5. QED
    BY <2>4 DEF Literals, p
<1>3. QED
  BY <1>1, <1>2

\* What is in a text without regard to case is found by SQLite too: the wildcards
\* before and after it take the rest.
LEMMA WithinIsLike ==
    ASSUME NEW s \in Seq(Chars), NEW v \in Seq(Chars), Within(s, v)
    PROVE  Like("sqlite", s, v)
<1> DEFINE p == <<"%">> \o v \o <<"%">>
           n == Len(v)
<1>1. PICK i \in 0..Len(s) : /\ i + n <= Len(s)
                             /\ \A k \in DOMAIN v : Lower[s[i + k]] = Lower[v[k]]
  BY DEF Within
<1>2. /\ n \in Nat /\ Len(p) = n + 2 /\ DOMAIN p = 1..(n + 2)
      /\ p[1] = "%" /\ p[n + 2] = "%"
      /\ \A k \in 2..(n + 1) : k - 1 \in DOMAIN v /\ p[k] = v[k - 1]
  BY PatternIs
<1>3. /\ Escapes("sqlite", p) = {}
      /\ Literals("sqlite", p) = {k \in DOMAIN p : p[k] \notin Wildcards}
  BY NothingEscapes
<1>4. Len(s) \in Nat /\ i \in Nat
  BY <1>1
<1> DEFINE at == [k \in 0..(n + 2) |-> IF k = 0 THEN 0 ELSE IF k <= n + 1 THEN i + k - 1
                                       ELSE Len(s)]
<1> HIDE DEF p, n
<1>5. at \in [0..(n + 2) -> 0..Len(s)]
  BY <1>1, <1>2, <1>4
<1>6. /\ at[0] = 0 /\ at[n + 2] = Len(s)
      /\ \A k \in 1..(n + 1) : at[k] = i + k - 1
  BY <1>2
<1> HIDE DEF at
<1>7. "%" \in Wildcards /\ "%" # "_"
  BY DEF Wildcards
<1>8. ASSUME NEW k \in DOMAIN p
      PROVE  \/ /\ k \in Literals("sqlite", p) /\ at[k] = at[k - 1] + 1
                /\ Same("sqlite", s[at[k]], p[k])
             \/ /\ k \notin Literals("sqlite", p) /\ at[k - 1] <= at[k]
                /\ p[k] = "_" => at[k] = at[k - 1] + 1
  <2>1. CASE k = 1
    <3>1. at[1] = i /\ at[0] = 0 /\ k - 1 = 0
      BY <1>2, <1>4, <1>6, <2>1
    <3>2. k \notin Literals("sqlite", p) /\ p[k] # "_"
      BY <1>2, <1>3, <1>7, <2>1
    <3>3. at[k - 1] <= at[k]
      BY <1>4, <2>1, <3>1
    <3>4. QED
      BY <3>2, <3>3
  <2>2. CASE k = n + 2
    <3>1. at[k - 1] = i + n
      BY <1>2, <1>4, <1>6, <2>2
    <3>2. QED
      BY <1>1, <1>2, <1>3, <1>4, <1>6, <1>7, <2>2, <3>1 DEF n
  <2>3. CASE k \in 2..(n + 1)
    <3>1. at[k] = i + k - 1 /\ at[k] = at[k - 1] + 1 /\ at[k - 1] <= at[k]
      <4>1. k \in Nat /\ k \in 1..(n + 1) /\ k - 1 \in 1..(n + 1)
        BY <1>2, <2>3
      <4>2. at[k] = i + k - 1 /\ at[k - 1] = i + (k - 1) - 1
        BY <1>6, <4>1
      <4>3. QED
        BY <1>4, <4>1, <4>2
    <3>2. k - 1 \in DOMAIN v /\ p[k] = v[k - 1] /\ i + (k - 1) = i + k - 1
      BY <1>2, <1>4, <2>3
    <3>3. Same("sqlite", s[at[k]], p[k])
      BY <1>1, <3>1, <3>2 DEF Same
    <3>4. QED
      BY <1>3, <3>1, <3>3
  <2>4. k = 1 \/ k = n + 2 \/ k \in 2..(n + 1)
    BY <1>2
  <2>5. QED
    BY <2>1, <2>2, <2>3, <2>4
<1>9. Laid("sqlite", s, p, at)
  BY <1>2, <1>3, <1>6, <1>8 DEF Laid
<1>10. QED
  BY <1>2, <1>5, <1>9 DEF Like, p

\* And what SQLite finds by a needle without wildcards is in the text: its letters
\* lie one behind the other.
LEMMA LikeIsWithin ==
    ASSUME NEW s \in Seq(Chars), NEW v \in Seq(Chars), Like("sqlite", s, v),
           \A k \in DOMAIN v : v[k] \notin Wildcards
    PROVE  Within(s, v)
<1> DEFINE p == <<"%">> \o v \o <<"%">>
           n == Len(v)
<1>1. PICK at \in [0..Len(p) -> 0..Len(s)] : Laid("sqlite", s, p, at)
  BY DEF Like
<1>2. /\ n \in Nat /\ Len(p) = n + 2 /\ DOMAIN p = 1..(n + 2) /\ DOMAIN v = 1..n
      /\ \A k \in DOMAIN v : p[k + 1] = v[k]
  BY PatternIs
<1>3. /\ Escapes("sqlite", p) = {}
      /\ Literals("sqlite", p) = {k \in DOMAIN p : p[k] \notin Wildcards}
  BY NothingEscapes
<1> HIDE DEF p, n
<1>4. Len(s) \in Nat /\ \A k \in 0..(n + 2) : at[k] \in 0..Len(s)
  BY <1>1, <1>2
<1>5. ASSUME NEW k \in 1..n
      PROVE  at[k + 1] = at[k] + 1 /\ Lower[s[at[k + 1]]] = Lower[v[k]]
  <2>1. k + 1 \in DOMAIN p /\ p[k + 1] = v[k] /\ (k + 1) - 1 = k
    BY <1>2
  <2>2. k + 1 \in Literals("sqlite", p)
    BY <1>2, <1>3, <2>1
  <2>3. at[k + 1] = at[(k + 1) - 1] + 1 /\ Same("sqlite", s[at[k + 1]], p[k + 1])
    BY <1>1, <1>3, <2>1, <2>2 DEF Laid
  <2>4. QED
    BY <2>1, <2>3 DEF Same
<1> DEFINE i == at[1]
           G == {k \in 0..n : at[k + 1] = i + k}
<1>6. i \in 0..Len(s)
  BY <1>2, <1>4
<1> HIDE DEF i
<1>7. 0..n \subseteq G
  <2>1. 0 \in G
    BY <1>2, <1>6 DEF i
  <2>2. ASSUME NEW k \in 1..n, k - 1 \in G PROVE k \in G
    <3>1. at[k] = i + (k - 1)
      BY <1>2, <2>2
    <3>2. at[k + 1] = i + k
      BY <1>2, <1>5, <1>6, <3>1
    <3>3. QED
      BY <3>2
  <2> HIDE DEF G
  <2>3. QED
    BY <1>2, <2>1, <2>2, UpTo
<1>8. i + n <= Len(s)
  BY <1>2, <1>4, <1>7
<1>9. ASSUME NEW k \in DOMAIN v PROVE Lower[s[i + k]] = Lower[v[k]]
  <2>1. k \in 1..n /\ k \in 0..n
    BY <1>2
  <2>2. at[k + 1] = i + k
    BY <1>7, <2>1
  <2>3. QED
    BY <1>5, <2>1, <2>2
<1>10. QED
  BY <1>6, <1>8, <1>9 DEF Within, n

\* Without a backslash PostgreSQL differs from SQLite in nothing but case.
LEMMA CaseIsAll ==
    ASSUME NEW s \in Seq(Chars), NEW v \in Seq(Chars), \A k \in DOMAIN v : v[k] # Backslash
    PROVE  /\ Like("postgresql", s, v) => Like("sqlite", s, v)
           /\ /\ \A k \in DOMAIN v, d \in Chars : Lower[d] = Lower[v[k]] => d = v[k]
              /\ Like("sqlite", s, v)
              => Like("postgresql", s, v)
<1> DEFINE p == <<"%">> \o v \o <<"%">>
<1>1. /\ Len(v) \in Nat /\ Len(p) = Len(v) + 2 /\ DOMAIN p = 1..(Len(v) + 2)
      /\ p[1] = "%" /\ p[Len(v) + 2] = "%"
      /\ \A k \in 2..(Len(v) + 1) : k - 1 \in DOMAIN v /\ p[k] = v[k - 1]
  BY PatternIs
<1>2. /\ Escapes("sqlite", p) = Escapes("postgresql", p)
      /\ Escapes("sqlite", p) = {} /\ Literals("sqlite", p) = Literals("postgresql", p)
      /\ Literals("sqlite", p) = {k \in DOMAIN p : p[k] \notin Wildcards}
  BY NothingEscapes
<1> HIDE DEF p
<1>3. ASSUME NEW at, Laid("postgresql", s, p, at) PROVE Laid("sqlite", s, p, at)
  BY <1>2, <1>3 DEF Laid, Same
<1>4. ASSUME NEW at \in [0..Len(p) -> 0..Len(s)], Laid("sqlite", s, p, at),
             \A k \in DOMAIN v, d \in Chars : Lower[d] = Lower[v[k]] => d = v[k]
      PROVE  Laid("postgresql", s, p, at)
  <2>1. ASSUME NEW k \in Literals("sqlite", p)
        PROVE  at[k] = at[k - 1] + 1 /\ s[at[k]] = p[k]
    <3>1. k \in DOMAIN p /\ p[k] \notin Wildcards
      BY <1>2
    <3>2. at[k] = at[k - 1] + 1 /\ Lower[s[at[k]]] = Lower[p[k]]
      BY <1>2, <1>4, <3>1 DEF Laid, Same
    <3>3. k \in 2..(Len(v) + 1)
      <4>1. "%" \in Wildcards
        BY DEF Wildcards
      <4>2. QED
        BY <1>1, <3>1, <4>1
    <3>4. at[k] \in 1..Len(s)
      <4>1. k \in 0..Len(p) /\ k - 1 \in 0..Len(p) /\ Len(s) \in Nat
        BY <1>1, <3>3
      <4>2. at[k] \in 0..Len(s) /\ at[k - 1] \in 0..Len(s)
        BY <4>1
      <4>3. QED
        BY <3>2, <4>1, <4>2
    <3>5. s[at[k]] \in Chars
      BY <3>4
    <3>6. QED
      BY <1>1, <1>4, <3>2, <3>3, <3>5
  <2>2. QED
    BY <1>2, <1>4, <2>1 DEF Laid, Same
<1>5. QED
  BY <1>3, <1>4 DEF Like, p

\* The JSON of a text is a text.
LEMMA JsonTextIs == ASSUME NEW s \in Seq(Chars) PROVE JsonText(s) \in Seq(Chars)
<1> DEFINE m == 2 * Len(s)
           twice == [k \in 1..m |-> IF k % 2 = 0 THEN s[k \div 2] ELSE Backslash]
           at == {k \in DOMAIN twice : k % 2 = 0 \/ s[(k + 1) \div 2] \in Escaped}
<1>1. Len(s) \in Nat /\ m \in Nat
  OBVIOUS
<1>2. ASSUME NEW k \in 1..m, k % 2 = 0 PROVE s[k \div 2] \in Chars
  <2>1. k \div 2 \in 1..Len(s)
    BY <1>1, <1>2
  <2>2. QED
    BY <2>1
<1>3. twice \in [1..m -> Chars]
  BY <1>2, QueryAssumption
<1> HIDE DEF m
<1>4. twice \in Seq(Chars)
  BY <1>1, <1>3
<1> HIDE DEF twice
<1>5. at \in SUBSET (DOMAIN twice)
  OBVIOUS
<1> HIDE DEF at
<1>6. Picked(twice, at) \in Seq(Chars)
  BY <1>4, <1>5, PickedByRank
<1>7. QED
  BY <1>6 DEF JsonText, at, twice, m

\* What the stores find by a needle.
LEMMA NeedlesAreFound ==
    ASSUME NEW n \in Needles, NEW In \in {InColumn, InJson}
    PROVE  /\ In["clickhouse"][n] \subseteq In["sqlite"][n]
           /\ n \in NoWildcard => In["sqlite"][n] \subseteq In["clickhouse"][n]
           /\ n \in NoBackslash => In["postgresql"][n] \subseteq In["sqlite"][n]
           /\ n \in NoBackslash \cap NoCase => In["sqlite"][n] \subseteq In["postgresql"][n]
<1> DEFINE v == Spelling[n]
           Kept(t) == IF In = InColumn THEN Spelling[t] ELSE JsonText(Spelling[t])
<1>1. v \in Seq(Chars) /\ \A t \in Texts : Kept(t) \in Seq(Chars)
  BY JsonTextIs, QueryAssumption
<1>2. \A store \in Stores : In[store][n] = {t \in Texts : Finds(store, Kept(t), v)}
  BY DEF InColumn, InJson
<1>3. \A k \in DOMAIN v : v[k] \in ToSet(v)
  BY DEF ToSet
<1> HIDE DEF v, Kept
<1>4. ASSUME NEW t \in Texts
      PROVE  /\ Finds("clickhouse", Kept(t), v) => Finds("sqlite", Kept(t), v)
             /\ n \in NoWildcard /\ Finds("sqlite", Kept(t), v) =>
                   Finds("clickhouse", Kept(t), v)
             /\ n \in NoBackslash /\ Finds("postgresql", Kept(t), v) =>
                   Finds("sqlite", Kept(t), v)
             /\ n \in NoBackslash \cap NoCase /\ Finds("sqlite", Kept(t), v) =>
                   Finds("postgresql", Kept(t), v)
  <2>1. Kept(t) \in Seq(Chars)
    BY <1>1
  <2>2. n \in NoWildcard => \A k \in DOMAIN v : v[k] \notin Wildcards
    BY <1>3 DEF NoWildcard, v
  <2>3. n \in NoBackslash => \A k \in DOMAIN v : v[k] # Backslash
    BY <1>3 DEF NoBackslash, v
  <2>4. n \in NoCase => \A k \in DOMAIN v, d \in Chars : Lower[d] = Lower[v[k]] => d = v[k]
    BY <1>3 DEF NoCase, v
  <2>5. QED
    BY <1>1, <2>1, <2>2, <2>3, <2>4, WithinIsLike, LikeIsWithin, CaseIsAll DEF Finds
<1>5. QED
  BY <1>2, <1>4 DEF Stores

\* A filter asks for a needle, or for none.
LEMMA FilterAsks ==
    ASSUME NEW f \in Filters
    PROVE  f.process_name \in Needles \cup {Absent} /\ f.indicator \in Needles \cup {Absent}
<1>1. PICK k \in Exact, t \in {"process_name", "indicator"} :
         f \in {[AnyEvent EXCEPT ![k] = v, ![t] = n] :
                   v \in Fields(k) \cup {Absent}, n \in Needles \cup {Absent}}
  BY DEF Filters
<1>2. PICK v, n : n \in Needles \cup {Absent} /\ f = [AnyEvent EXCEPT ![k] = v, ![t] = n]
  BY <1>1
<1>3. QED
  BY <1>2 DEF AnyEvent, Exact

\* One store finds what another does, if it does so by each needle.
LEMMA FoundToo ==
    ASSUME NEW f \in Filters, NEW e, NEW one \in Stores, NEW other \in Stores,
           \A n \in Asks(f) \cap Needles : /\ InColumn[one][n] \subseteq InColumn[other][n]
                                           /\ InJson[one][n] \subseteq InJson[other][n],
           Matches(one, e, f)
    PROVE  Matches(other, e, f)
<1>1. f.process_name \in Needles \cup {Absent} /\ f.indicator \in Needles \cup {Absent}
  BY FilterAsks
<1>2. /\ \A k \in Exact : f[k] = Absent \/ e[k] = f[k]
      /\ HasNeedles(one, e, f)
  BY DEF Matches, SqlMatches, ClickHouseMatches
<1>3. f.process_name # Absent => e.process_name \in InColumn[other][f.process_name]
  BY <1>1, <1>2 DEF HasNeedles, Asks
<1>4. f.indicator # Absent => JsonHas(e, InJson[other][f.indicator])
  BY <1>1, <1>2 DEF HasNeedles, Asks, JsonHas
<1>5. HasNeedles(other, e, f)
  BY <1>3, <1>4 DEF HasNeedles
<1>6. QED
  BY <1>2, <1>5 DEF Matches, SqlMatches, ClickHouseMatches

\* Two pages of the same rows differ in rows of one timestamp.
LEMMA PagesDiffer ==
    ASSUME InvestigationInv, NEW found \in SUBSET ToSet(stored),
           NEW store \in {"postgresql", "clickhouse"}, NEW limit,
           NEW page \in Pages(store, found, limit), NEW other \in Pages("sqlite", found, limit)
    PROVE  /\ Cardinality(page) = Cardinality(other)
           /\ \A e \in page \ other, d \in other \ page : Time(store, e) = Time(store, d)
<1>1. Cardinality(page) = Cardinality(other)
  BY DEF Pages
<1>2. ASSUME NEW e \in page \ other, NEW d \in other \ page
      PROVE  Time(store, e) = Time(store, d)
  <2>1. e \in found /\ d \in found
    BY DEF Pages
  <2>2. Time(store, d) <= Time(store, e) /\ Time("sqlite", e) <= Time("sqlite", d)
    BY <2>1 DEF Pages
  <2>3. \A r \in found : Timestamp[r.id] \in Nat
    <3>1. ASSUME NEW r \in found PROVE r.id \in 1..MaxEvents
      <4>1. PICK i \in DOMAIN stored : r = stored[i]
        BY DEF ToSet
      <4>2. Len(stored) \in Nat /\ DOMAIN stored = 1..Len(stored) /\ Len(stored) <= MaxEvents
        BY DEF InvestigationInv
      <4>3. QED
        BY <4>1, <4>2, InvestigationAssumption DEF InvestigationInv
    <3>2. QED
      BY <3>1, InvestigationAssumption, QueryAssumption
  <2>4. Timestamp[e.id] \in Nat /\ Timestamp[d.id] \in Nat
        /\ Timestamp[e.id] <= Timestamp[d.id]
    BY <2>1, <2>2, <2>3 DEF Time
  <2>5. \A a, b \in Nat : a <= b => a \div 1000 <= b \div 1000
    OBVIOUS
  <2>6. Time(store, e) <= Time(store, d) /\ Time(store, e) \in Nat /\ Time(store, d) \in Nat
    BY <2>4, <2>5 DEF Time
  <2>7. QED
    BY <2>2, <2>6
<1>3. QED
  BY <1>1, <1>2

\* So the stores answer as the property says.
LEMMA StoresFollow == InvestigationInv => StoresAgree
<1> SUFFICES ASSUME InvestigationInv PROVE StoresAgree
  OBVIOUS
<1>1. ASSUME NEW f \in Filters, NEW e
      PROVE  /\ Matches("clickhouse", e, f) => Matches("sqlite", e, f)
             /\ Asks(f) \subseteq NoWildcard /\ Matches("sqlite", e, f) =>
                   Matches("clickhouse", e, f)
             /\ Asks(f) \subseteq NoBackslash /\ Matches("postgresql", e, f) =>
                   Matches("sqlite", e, f)
             /\ Asks(f) \subseteq NoBackslash \cap NoCase /\ Matches("sqlite", e, f) =>
                   Matches("postgresql", e, f)
  BY NeedlesAreFound, FoundToo DEF Stores
<1>2. ASSUME NEW x, NEW store \in {"postgresql", "clickhouse"},
             NEW kind \in {"process_entity_id", "parent_process_entity_id"},
             NEW page \in Pages(store, RelatedTo(store, kind, x), PageLimit),
             NEW other \in Pages("sqlite", RelatedTo("sqlite", kind, x), PageLimit)
      PROVE  /\ Cardinality(page) = Cardinality(other)
             /\ \A e \in page \ other, d \in other \ page : Time(store, e) = Time(store, d)
  <2>1. ASSUME NEW e PROVE Related(store, e, kind, x) <=> Related("sqlite", e, kind, x)
    BY DEF Related, Column
  <2>2. /\ RelatedTo(store, kind, x) = RelatedTo("sqlite", kind, x)
        /\ RelatedTo("sqlite", kind, x) \in SUBSET ToSet(stored)
    BY <2>1 DEF RelatedTo
  <2> DEFINE found == RelatedTo("sqlite", kind, x)
  <2>3. /\ page \in Pages(store, found, PageLimit) /\ found \in SUBSET ToSet(stored)
        /\ other \in Pages("sqlite", found, PageLimit)
    BY <2>2
  <2> HIDE DEF found
  <2>4. QED
    BY <2>3, PagesDiffer
<1>3. ASSUME NEW p, NEW e \in ToSet(RelatedEvents("sqlite", stored, "parent_process_id", p,
                                                  PageLimit))
      PROVE  e \in ToSet(stored) /\ e.process_id = p
  <2> DEFINE at == {i \in DOMAIN stored : Related("sqlite", stored[i], "parent_process_id", p)}
  <2>1. stored \in Seq(StoredEvent) /\ at \in SUBSET (DOMAIN stored)
    BY DEF InvestigationInv
  <2>2. PICK n \in DOMAIN Picked(stored, at) : e = Picked(stored, at)[n]
    <3>1. e \in ToSet(Latest(Picked(stored, at), PageLimit))
      BY <1>3 DEF RelatedEvents
    <3> HIDE DEF at
    <3>2. Picked(stored, at) \in Seq(StoredEvent)
      BY <2>1, PickedByRank
    <3>3. QED
      BY <3>1, <3>2, LatestAreFound, InvestigationAssumption
  <2>3. PICK i \in at : e = stored[i]
    <3> HIDE DEF at
    <3>1. QED
      BY <2>1, <2>2, PickedByRank
  <2>4. stored[i].process_id = p
    BY DEF Related, Column
  <2>5. QED
    BY <2>3, <2>4 DEF ToSet
<1>4. QED
  BY <1>1, <1>2, <1>3 DEF StoresAgree

\* What is picked has the members at the positions, and once if they were.
LEMMA PickedAll ==
    ASSUME NEW S, NEW s \in Seq(S), NEW at \in SUBSET (DOMAIN s)
    PROVE  /\ Picked(s, at) \in Seq(S) /\ Len(Picked(s, at)) = Cardinality(at)
           /\ \A i \in at : s[i] \in ToSet(Picked(s, at))
           /\ \A e \in ToSet(Picked(s, at)) : \E i \in at : e = s[i]
           /\ IsInjective(s) => IsInjective(Picked(s, at))
<1> DEFINE p == Picked(s, at)
<1>1. /\ p \in Seq(S) /\ DOMAIN p = 1..Cardinality(at)
      /\ \A n \in DOMAIN p : \E i \in at : p[n] = s[i] /\ Rank(at, i) = n
      /\ \A i \in at : Rank(at, i) \in DOMAIN p /\ p[Rank(at, i)] = s[i]
  BY PickedByRank
<1>2. Cardinality(at) \in Nat
  <2>1. Len(s) \in Nat /\ at \in SUBSET (1..Len(s))
    OBVIOUS
  <2>2. QED
    BY <2>1, RanksCount
<1> HIDE DEF p
<1>3. Len(p) = Cardinality(at)
  BY <1>1, <1>2
<1>4. /\ \A i \in at : s[i] \in ToSet(p)
      /\ \A e \in ToSet(p) : \E i \in at : e = s[i]
  BY <1>1 DEF ToSet
<1>5. ASSUME IsInjective(s), NEW n \in DOMAIN p, NEW m \in DOMAIN p, p[n] = p[m]
      PROVE  n = m
  <2>1. PICK i \in at : p[n] = s[i] /\ Rank(at, i) = n
    BY <1>1
  <2>2. PICK j \in at : p[m] = s[j] /\ Rank(at, j) = m
    BY <1>1
  <2>3. i = j
    BY <1>5, <2>1, <2>2 DEF IsInjective
  <2>4. QED
    BY <2>1, <2>2, <2>3
<1>6. QED
  BY <1>1, <1>3, <1>4, <1>5 DEF p, IsInjective

\* A page has nothing twice, and all that was found if there is room for it.
LEMMA LatestKeeps ==
    ASSUME NEW S, NEW s \in Seq(S), NEW limit \in Nat
    PROVE  /\ Latest(s, limit) \in Seq(S)
           /\ IsInjective(s) => IsInjective(Latest(s, limit))
           /\ Len(s) <= limit => ToSet(s) \subseteq ToSet(Latest(s, limit))
<1> DEFINE from == IF Len(s) > limit THEN Len(s) - limit + 1 ELSE 1
           page == SubSeq(s, from, Len(s))
           size == Len(s) - from + 1
           l == Latest(s, limit)
<1>1. /\ from \in Nat /\ from >= 1 /\ from <= Len(s) + 1 /\ Len(s) \in Nat /\ size \in Nat
      /\ Len(s) <= limit => from = 1
  OBVIOUS
<1> HIDE DEF from
<1>2. Len(page) = size /\ \A i \in 1..size : page[i] = s[from + i - 1]
  BY <1>1
<1> HIDE DEF page
<1>3. l = [i \in 1..size |-> page[size - i + 1]]
  BY <1>2 DEF Latest, Reverse, page, from
<1>4. \A i \in 1..size : size - i + 1 \in 1..size /\ from + (size - i + 1) - 1 = Len(s) - i + 1
  BY <1>1
<1>5. DOMAIN l = 1..size /\ \A i \in 1..size : l[i] = s[Len(s) - i + 1]
  BY <1>2, <1>3, <1>4
<1>6. \A i \in 1..size : Len(s) - i + 1 \in DOMAIN s
  BY <1>1
<1>7. l \in Seq(S)
  <2>1. \A i \in 1..size : l[i] \in S
    BY <1>5, <1>6
  <2>2. l = [i \in 1..size |-> l[i]]
    BY <1>3, <1>5
  <2> HIDE DEF l, size
  <2>3. QED
    BY <1>1, <2>1, <2>2
<1> HIDE DEF l
<1>8. ASSUME IsInjective(s), NEW i \in DOMAIN l, NEW j \in DOMAIN l, l[i] = l[j] PROVE i = j
  <2>1. Len(s) - i + 1 = Len(s) - j + 1
    BY <1>5, <1>6, <1>8 DEF IsInjective
  <2>2. QED
    BY <1>1, <1>5, <2>1
<1>9. ASSUME Len(s) <= limit, NEW i \in DOMAIN s PROVE s[i] \in ToSet(l)
  <2>1. /\ size = Len(s) /\ Len(s) - i + 1 \in 1..size
        /\ Len(s) - (Len(s) - i + 1) + 1 = i
    BY <1>1, <1>9
  <2>2. l[Len(s) - i + 1] = s[i]
    BY <1>5, <2>1
  <2>3. QED
    BY <1>5, <2>1, <2>2 DEF ToSet
<1>10. QED
  BY <1>7, <1>8, <1>9 DEF l, IsInjective, ToSet

\* A sequence without repetition has as many members as positions.
LEMMA DistinctCounts ==
    ASSUME NEW S, NEW s \in Seq(S), IsInjective(s)
    PROVE  Cardinality(ToSet(s)) = Len(s) /\ IsFiniteSet(ToSet(s))
<1>1. Len(s) \in Nat /\ DOMAIN s = 1..Len(s)
  OBVIOUS
<1>2. IsFiniteSet(1..Len(s)) /\ Cardinality(1..Len(s)) = Len(s)
  BY <1>1, FS_Interval
<1> DEFINE f == [i \in 1..Len(s) |-> s[i]]
<1>3. f \in Bijection(1..Len(s), ToSet(s))
  BY <1>1 DEF ToSet, IsInjective, Bijection, Injection, Surjection
<1>4. ExistsBijection(1..Len(s), ToSet(s))
  BY <1>3 DEF ExistsBijection
<1>5. QED
  BY <1>2, <1>4, FS_Bijection

\* The sequence of a finite set has all its members.
LEMMA SetToSeqHasAll ==
    ASSUME NEW T, IsFiniteSet(T)
    PROVE  /\ Len(SetToSeq(T)) \in Nat
           /\ \A t \in T : \E n \in 1..Len(SetToSeq(T)) : SetToSeq(T)[n] = t
<1> DEFINE c == Cardinality(T)
           f == SetToSeq(T)
<1>1. c \in Nat /\ IsFiniteSet(1..c) /\ Cardinality(1..c) = c
  BY FS_CardinalityType, FS_Interval
<1>2. ExistsBijection(1..c, T)
  BY <1>1, FS_SameCardinalityBij
<1>3. PICK g : g \in Bijection(1..c, T)
  BY <1>2 DEF ExistsBijection
<1>4. g \in [1..c -> T] /\ IsInjective(g)
  BY <1>3 DEF Bijection, Injection, IsInjective
<1>5. f \in [1..c -> T] /\ IsInjective(f)
  BY <1>4 DEF SetToSeq
<1> HIDE DEF f
<1>6. f \in Injection(1..c, T)
  BY <1>5 DEF Injection, IsInjective
<1>7. f \in Surjection(1..c, T)
  BY <1>1, <1>6, FS_Injection
<1>8. Len(f) = c
  BY <1>1, <1>5
<1>9. QED
  BY <1>1, <1>7, <1>8 DEF f, Surjection

\* Numbers tell stored events apart.
LEMMA StoredOnce ==
    ASSUME InvestigationInv
    PROVE  stored \in Seq(StoredEvent) /\ IsInjective(stored)
BY DEF InvestigationInv, IsInjective

\* What the hunt for an indicator, or the timeline of a process, lists: events,
\* each once, and all that match unless they are more than a page.
LEMMA PageOf ==
    ASSUME InvestigationInv, NEW at \in SUBSET (DOMAIN stored)
    PROVE  /\ Latest(Picked(stored, at), PageLimit) \in Seq(StoredEvent)
           /\ IsInjective(Latest(Picked(stored, at), PageLimit))
           /\ \A e \in ToSet(Latest(Picked(stored, at), PageLimit)) : \E i \in at : e = stored[i]
           /\ \A i \in at : \/ stored[i] \in ToSet(Latest(Picked(stored, at), PageLimit))
                            \/ Cardinality(at) > PageLimit
<1> DEFINE p == Picked(stored, at)
<1>1. stored \in Seq(StoredEvent) /\ IsInjective(stored) /\ PageLimit \in Nat
  BY StoredOnce, InvestigationAssumption
<1>2. /\ p \in Seq(StoredEvent) /\ Len(p) = Cardinality(at) /\ IsInjective(p)
      /\ \A i \in at : stored[i] \in ToSet(p)
      /\ \A e \in ToSet(p) : \E i \in at : e = stored[i]
  BY <1>1, PickedAll
<1> HIDE DEF p
<1>3. /\ Latest(p, PageLimit) \in Seq(StoredEvent) /\ IsInjective(Latest(p, PageLimit))
      /\ Len(p) <= PageLimit => ToSet(p) \subseteq ToSet(Latest(p, PageLimit))
  BY <1>1, <1>2, LatestKeeps
<1>4. \A e \in ToSet(Latest(p, PageLimit)) : e \in ToSet(p)
  BY <1>1, <1>2, LatestAreFound DEF ToSet
<1>5. Len(p) \in Nat
  BY <1>2
<1>6. QED
  BY <1>1, <1>2, <1>3, <1>4, <1>5 DEF p

-----------------------------------------------------------------------------
\* What the hunt has found after each indicator.
Adding(found, v) == Picked(HuntFor(v), Unseen(found, HuntFor(v)))
Gathers(g, values, m) ==
    /\ g = [n \in 0..m |-> g[n]] /\ g[0] = <<>>
    /\ \A n \in 1..m : g[n] = g[n - 1] \o Adding(g[n - 1], values[n])

\* There is such a function ...
LEMMA GatherExists ==
    ASSUME NEW values, NEW l \in Nat
    PROVE  \E g : Gathers(g, values, l)
<1> DEFINE G == {m \in 0..l : \E g : Gathers(g, values, m)}
<1>1. 0 \in G
  <2> DEFINE g == [n \in 0..0 |-> <<>>]
  <2>1. Gathers(g, values, 0)
    BY DEF Gathers
  <2>2. QED
    BY <2>1
<1>2. ASSUME NEW m \in 1..l, m - 1 \in G PROVE m \in G
  <2>1. PICK g : Gathers(g, values, m - 1)
    BY <1>2
  <2> DEFINE last == g[m - 1] \o Adding(g[m - 1], values[m])
             h == [n \in 0..m |-> IF n = m THEN last ELSE g[n]]
  <2>2. \A n \in 0..m : n # m => n \in 0..(m - 1) /\ h[n] = g[n]
    OBVIOUS
  <2> HIDE DEF last
  <2>3. h[m] = last /\ h = [n \in 0..m |-> h[n]]
    <3>1. m \in 0..m
      OBVIOUS
    <3>2. QED
      BY <3>1
  <2> HIDE DEF h
  <2> USE DEF last
  <2>4. h[0] = <<>>
    <3>1. 0 \in 0..m /\ 0 # m /\ g[0] = <<>>
      BY <2>1 DEF Gathers
    <3>2. QED
      BY <2>2, <3>1
  <2>5. ASSUME NEW n \in 1..m PROVE h[n] = h[n - 1] \o Adding(h[n - 1], values[n])
    <3>1. n \in 0..m /\ n - 1 \in 0..m /\ n - 1 # m /\ h[n - 1] = g[n - 1]
      BY <2>2
    <3>2. CASE n = m
      BY <2>3, <3>1, <3>2
    <3>3. CASE n # m
      <4>1. n \in 1..(m - 1) /\ h[n] = g[n]
        BY <2>2, <3>1, <3>3
      <4>2. QED
        BY <2>1, <3>1, <4>1 DEF Gathers
    <3>4. QED
      BY <3>2, <3>3
  <2>6. Gathers(h, values, m)
    BY <2>3, <2>4, <2>5 DEF Gathers
  <2>7. QED
    BY <2>6
<1> HIDE DEF G
<1>3. 0..l \subseteq G
  BY <1>1, <1>2, UpTo
<1>4. QED
  BY <1>3 DEF G

\* ... and the events of the hunt are what it comes to.
LEMMA HuntGathers ==
    ASSUME NEW timeline, Len(SetToSeq(TimelineIndicators(timeline))) \in Nat
    PROVE  \E g : LET values == SetToSeq(TimelineIndicators(timeline))
                  IN  Gathers(g, values, Len(values)) /\ HuntEvents(timeline) = g[Len(values)]
<1> DEFINE values == SetToSeq(TimelineIndicators(timeline))
           l == Len(values)
           Def(f) == [n \in 0..l |-> IF n = 0 THEN <<>>
                                     ELSE f[n - 1] \o Picked(HuntFor(values[n]),
                                                             Unseen(f[n - 1], HuntFor(values[n])))]
           found == CHOOSE f : f = Def(f)
<1>1. HuntEvents(timeline) = found[l]
  BY DEF HuntEvents
<1> HIDE DEF values
<1>2. PICK g : Gathers(g, values, l)
  BY GatherExists DEF values
<1>3. g = Def(g)
  <2>1. ASSUME NEW n \in 0..l PROVE g[n] = Def(g)[n]
    <3>1. CASE n = 0
      BY <1>2, <3>1 DEF Gathers
    <3>2. CASE n # 0
      <4>1. n \in 1..l
        BY <3>2 DEF values
      <4>2. QED
        BY <1>2, <3>2, <4>1 DEF Gathers, Adding
    <3>3. QED
      BY <3>1, <3>2
  <2>2. g = [n \in 0..l |-> g[n]] /\ Def(g) = [n \in 0..l |-> Def(g)[n]]
    BY <1>2 DEF Gathers
  <2> HIDE DEF Def
  <2>3. QED
    BY <2>1, <2>2
<1>4. found = Def(found)
  <2> HIDE DEF Def
  <2>1. QED
    BY <1>3
<1>5. Gathers(found, values, l)
  <2> HIDE DEF found
  <2>1. l \in Nat
    BY DEF values
  <2>2. DOMAIN found = 0..l /\ found[0] = <<>>
    BY <1>4, <2>1
  <2>3. found = [n \in 0..l |-> found[n]]
    BY <1>4
  <2>4. ASSUME NEW n \in 1..l PROVE found[n] = found[n - 1] \o Adding(found[n - 1], values[n])
    <3>1. n \in 0..l /\ n # 0
      BY <2>1
    <3>2. QED
      BY <1>4, <3>1 DEF Adding
  <2>5. QED
    BY <2>2, <2>3, <2>4 DEF Gathers
<1>6. QED
  BY <1>1, <1>5 DEF values

\* What one indicator adds to what was found: what it lists that is new.
LEMMA Added ==
    ASSUME NEW S, NEW found \in Seq(S), NEW v, HuntFor(v) \in Seq(S),
           IsInjective(found), IsInjective(HuntFor(v))
    PROVE  /\ found \o Adding(found, v) \in Seq(S) /\ IsInjective(found \o Adding(found, v))
           /\ ToSet(found) \cup ToSet(HuntFor(v)) \subseteq ToSet(found \o Adding(found, v))
<1> DEFINE events == HuntFor(v)
           at == Unseen(found, events)
           new == Picked(events, at)
           all == found \o new
<1>1. at \in SUBSET (DOMAIN events) /\ \A i \in at : events[i] \notin ToSet(found)
  BY DEF Unseen
<1>2. \A i \in DOMAIN events : i \in at \/ events[i] \in ToSet(found)
  BY DEF Unseen
<1> HIDE DEF at, events
<1>3. /\ new \in Seq(S) /\ IsInjective(new)
      /\ \A i \in at : events[i] \in ToSet(new)
      /\ \A e \in ToSet(new) : \E i \in at : e = events[i]
  BY <1>1, PickedAll DEF events
<1> HIDE DEF new
<1>4. /\ all \in Seq(S) /\ Len(all) = Len(found) + Len(new)
      /\ Len(found) \in Nat /\ Len(new) \in Nat
      /\ \A i \in 1..Len(found) : all[i] = found[i]
      /\ \A i \in 1..Len(new) : all[Len(found) + i] = new[i]
  BY <1>3
<1>5. DOMAIN found = 1..Len(found) /\ DOMAIN new = 1..Len(new) /\ DOMAIN all = 1..Len(all)
  BY <1>3, <1>4
<1> HIDE DEF all
<1>6. ToSet(found) \subseteq ToSet(all) /\ ToSet(new) \subseteq ToSet(all)
  <2>1. ASSUME NEW i \in 1..Len(found) PROVE found[i] \in ToSet(all)
    BY <1>4, <1>5 DEF ToSet
  <2>2. ASSUME NEW i \in 1..Len(new) PROVE new[i] \in ToSet(all)
    <3>1. Len(found) + i \in DOMAIN all /\ all[Len(found) + i] = new[i]
      BY <1>4, <1>5
    <3>2. QED
      BY <3>1 DEF ToSet
  <2>3. QED
    BY <1>5, <2>1, <2>2 DEF ToSet
<1>7. ASSUME NEW i \in DOMAIN events PROVE events[i] \in ToSet(all)
  BY <1>2, <1>3, <1>6
<1>8. \A i \in DOMAIN all : i \in 1..Len(found) \/ (i - Len(found) \in 1..Len(new)
                                                   /\ all[i] = new[i - Len(found)])
  BY <1>4, <1>5
<1>9. ASSUME NEW i \in 1..Len(found), NEW j \in 1..Len(new) PROVE found[i] # new[j]
  <2>1. found[i] \in ToSet(found) /\ new[j] \in ToSet(new)
    BY <1>5 DEF ToSet
  <2>2. new[j] \notin ToSet(found)
    BY <1>1, <1>3, <2>1
  <2>3. QED
    BY <2>1, <2>2
<1>10. ASSUME NEW i \in DOMAIN all, NEW j \in DOMAIN all, all[i] = all[j] PROVE i = j
  <2>1. CASE i \in 1..Len(found) /\ j \in 1..Len(found)
    BY <1>4, <1>5, <1>10, <2>1 DEF IsInjective
  <2>2. CASE i \notin 1..Len(found) /\ j \notin 1..Len(found)
    <3>1. i - Len(found) = j - Len(found)
      BY <1>3, <1>5, <1>8, <1>10, <2>2 DEF IsInjective
    <3>2. QED
      BY <1>4, <1>5, <3>1
  <2>3. CASE i \in 1..Len(found) /\ j \notin 1..Len(found)
    BY <1>4, <1>8, <1>9, <1>10, <2>3
  <2>4. CASE i \notin 1..Len(found) /\ j \in 1..Len(found)
    BY <1>4, <1>8, <1>9, <1>10, <2>4
  <2>5. QED
    BY <2>1, <2>2, <2>3, <2>4
<1>11. all = found \o Adding(found, v)
  BY DEF all, new, at, events, Adding
<1>12. all \in Seq(S) /\ IsInjective(all)
  BY <1>4, <1>10 DEF IsInjective
<1>13. ToSet(events) \subseteq ToSet(all)
  BY <1>7 DEF ToSet
<1>14. QED
  BY <1>6, <1>11, <1>12, <1>13 DEF events

\* So the hunt has events, each once, and all that its indicators list.
LEMMA GatherHas ==
    ASSUME NEW S, NEW values, NEW l \in Nat, NEW g, Gathers(g, values, l),
           \A n \in 1..l : HuntFor(values[n]) \in Seq(S) /\ IsInjective(HuntFor(values[n]))
    PROVE  /\ g[l] \in Seq(S) /\ IsInjective(g[l])
           /\ \A n \in 1..l : ToSet(HuntFor(values[n])) \subseteq ToSet(g[l])
<1> DEFINE Has(m) == /\ g[m] \in Seq(S) /\ IsInjective(g[m])
                     /\ \A n \in 1..m : ToSet(HuntFor(values[n])) \subseteq ToSet(g[m])
           G == {m \in 0..l : Has(m)}
<1>1. 0 \in G
  <2>1. g[0] = <<>> /\ 0 \in 0..l /\ \A n \in 1..0 : FALSE
    BY DEF Gathers
  <2>2. <<>> \in Seq(S) /\ DOMAIN <<>> = {}
    OBVIOUS
  <2>3. QED
    BY <2>1, <2>2 DEF IsInjective
<1>2. ASSUME NEW m \in 1..l, m - 1 \in G PROVE m \in G
  <2>1. Has(m - 1)
    BY <1>2
  <2>2. g[m] = g[m - 1] \o Adding(g[m - 1], values[m])
    BY DEF Gathers
  <2>3. /\ g[m] \in Seq(S) /\ IsInjective(g[m])
        /\ ToSet(g[m - 1]) \cup ToSet(HuntFor(values[m])) \subseteq ToSet(g[m])
    BY <2>1, <2>2, Added
  <2>4. \A n \in 1..m : n = m \/ n \in 1..(m - 1)
    OBVIOUS
  <2>5. Has(m)
    BY <2>1, <2>3, <2>4
  <2>6. QED
    BY <2>5
<1> HIDE DEF G
<1>3. 0..l \subseteq G
  BY <1>1, <1>2, UpTo
<1>4. l \in G
  BY <1>3
<1>5. QED
  BY <1>4 DEF G

\* The workspace is complete, then.
LEMMA WorkspaceFollows == InvestigationInv => WorkspaceIsComplete
<1> SUFFICES ASSUME InvestigationInv, NEW i \in DOMAIN stored
             PROVE  LET page == Workspace(stored[i]) IN
                    /\ \/ stored[i] \in ToSet(page.related_timeline)
                       \/ Matching("process_entity_id", Entity(stored[i])) > PageLimit
                    /\ page.summary.event_count = Cardinality(ToSet(page.events))
                    /\ \A f \in ToSet(page.related_timeline) :
                          f.remote_ip # Absent =>
                             \/ f \in ToSet(page.events) /\ page.summary.first_seen <= f.id
                             \/ Matching("indicator", f.remote_ip) > PageLimit
  BY DEF WorkspaceIsComplete
<1> DEFINE x == Entity(stored[i])
           timeline == RelatedTimeline(stored[i])
           values == SetToSeq(TimelineIndicators(timeline))
           events == HuntEvents(timeline)
           Listed(k, v) ==
               {j \in DOMAIN stored : Matches("sqlite", stored[j], [AnyEvent EXCEPT ![k] = v])}
           own == {j \in DOMAIN stored : Related("sqlite", stored[j], "process_entity_id", x)}
<1>1. stored \in Seq(StoredEvent) /\ IsInjective(stored) /\ PageLimit \in Nat
      /\ \A j \in DOMAIN stored : stored[j] \in StoredEvent
  BY StoredOnce, InvestigationAssumption
<1>2. ASSUME NEW k, NEW v
      PROVE  Matching(k, v) = Cardinality(Listed(k, v))
  <2>1. Matching(k, v) = Len(Picked(stored, Listed(k, v)))
    BY DEF Matching, CountEvents, Answer, Matches
  <2>2. Listed(k, v) \in SUBSET (DOMAIN stored)
    OBVIOUS
  <2> HIDE DEF Listed
  <2>3. QED
    BY <1>1, <2>1, <2>2, PickedAll
<1>3. ASSUME NEW v
      PROVE  HuntFor(v) = Latest(Picked(stored, Listed("indicator", v)), PageLimit)
  BY DEF HuntFor, ListEvents, Answer, Matches
<1>4. timeline = Latest(Picked(stored, own), PageLimit)
  BY DEF RelatedTimeline, RelatedEvents
<1>5. /\ own \in SUBSET (DOMAIN stored) /\ i \in own
      /\ \A k, v : Listed(k, v) \in SUBSET (DOMAIN stored)
  <2>1. Related("sqlite", stored[i], "process_entity_id", x)
    BY DEF Related, Column, Entity
  <2>2. QED
    BY <2>1
<1>6. own \in SUBSET Listed("process_entity_id", x)
  BY DEF Related, Column, Entity, Matches, SqlMatches, AnyEvent, HasNeedles, Exact
<1> HIDE DEF own, Listed
<1>7. /\ timeline \in Seq(StoredEvent) /\ IsInjective(timeline)
      /\ \A e \in ToSet(timeline) : \E j \in own : e = stored[j]
      /\ stored[i] \in ToSet(timeline) \/ Cardinality(own) > PageLimit
  BY <1>4, <1>5, PageOf
<1>8. stored[i] \in ToSet(timeline) \/ Matching("process_entity_id", x) > PageLimit
  <2> DEFINE listed == Listed("process_entity_id", x)
  <2>1. listed \in SUBSET (1..Len(stored)) /\ own \in SUBSET listed /\ Len(stored) \in Nat
    BY <1>1, <1>5, <1>6
  <2> HIDE DEF listed
  <2>2. IsFiniteSet(listed) /\ Cardinality(listed) \in Nat
    BY <2>1, RanksCount
  <2>3. Cardinality(own) <= Cardinality(listed) /\ Cardinality(own) \in Nat
    BY <2>1, <2>2, FS_Subset, FS_CardinalityType
  <2>4. QED
    BY <1>1, <1>2, <1>7, <2>2, <2>3 DEF listed
<1> HIDE DEF timeline
<1>9. IsFiniteSet(TimelineIndicators(timeline))
  <2> DEFINE named == {n \in DOMAIN timeline : timeline[n].remote_ip # Absent}
             f == [n \in named |-> timeline[n].remote_ip]
  <2>1. IsFiniteSet(named)
    <3>1. Len(timeline) \in Nat /\ named \in SUBSET (1..Len(timeline))
      BY <1>7
    <3>2. QED
      BY <3>1, FS_Interval, FS_Subset
  <2>2. f \in Surjection(named, TimelineIndicators(timeline))
    BY DEF TimelineIndicators, ToSet, Surjection
  <2> HIDE DEF named, f
  <2>3. QED
    BY <2>1, <2>2, FS_Surjection
<1>10. Len(values) \in Nat
       /\ \A v \in TimelineIndicators(timeline) : \E n \in 1..Len(values) : values[n] = v
  BY <1>9, SetToSeqHasAll
<1>11. \A v : /\ HuntFor(v) \in Seq(StoredEvent) /\ IsInjective(HuntFor(v))
              /\ \A j \in Listed("indicator", v) :
                    stored[j] \in ToSet(HuntFor(v)) \/ Matching("indicator", v) > PageLimit
  BY <1>2, <1>3, <1>5, PageOf
<1>12. /\ events \in Seq(StoredEvent) /\ IsInjective(events)
       /\ \A n \in 1..Len(values) : ToSet(HuntFor(values[n])) \subseteq ToSet(events)
  <2>1. PICK g : Gathers(g, values, Len(values)) /\ events = g[Len(values)]
    BY <1>10, HuntGathers
  <2> HIDE DEF values, events
  <2>2. QED
    BY <1>10, <1>11, <2>1, GatherHas
<1>13. ASSUME NEW e \in ToSet(timeline), e.remote_ip # Absent
       PROVE  e \in ToSet(events) \/ Matching("indicator", e.remote_ip) > PageLimit
  <2> DEFINE v == e.remote_ip
  <2>1. PICK j \in DOMAIN stored : e = stored[j]
    BY <1>5, <1>7
  <2>2. v \in TimelineIndicators(timeline)
    BY <1>13 DEF TimelineIndicators
  <2>3. PICK n \in 1..Len(values) : values[n] = v
    BY <1>10, <2>2
  <2>4. j \in Listed("indicator", v)
    <3>1. v \in Remotes
      BY <1>1, <1>13, <2>1 DEF StoredEvent
    <3>2. v \in Needles \cap Texts
      BY <3>1, InvestigationAssumption DEF Remotes
    <3>3. v \in InJson["sqlite"][v]
      <4>1. Spelling[v] \in Seq(Chars) /\ JsonText(Spelling[v]) = Spelling[v]
        BY <3>1, <3>2, InvestigationAssumption, QueryAssumption DEF Remotes
      <4>2. Within(Spelling[v], Spelling[v])
        <5> DEFINE s == Spelling[v]
        <5>1. Len(s) \in Nat /\ \A k \in DOMAIN s : 0 + k = k
          BY <4>1
        <5>2. 0 \in 0..Len(s) /\ 0 + Len(s) <= Len(s)
              /\ \A k \in DOMAIN s : Lower[s[0 + k]] = Lower[s[k]]
          BY <5>1
        <5> HIDE DEF s
        <5>3. Within(s, s)
          BY <5>2 DEF Within
        <5>4. QED
          BY <5>3 DEF s
      <4>3. Like("sqlite", Spelling[v], Spelling[v])
        BY <4>1, <4>2, WithinIsLike
      <4>4. QED
        BY <3>2, <4>1, <4>3 DEF InJson, Finds, Stores
    <3>4. JsonHas(stored[j], InJson["sqlite"][v])
      BY <2>1, <3>3 DEF JsonHas, InEvent
    <3>5. QED
      BY <3>4 DEF Listed, Matches, SqlMatches, AnyEvent, HasNeedles, Exact
  <2>5. stored[j] \in ToSet(HuntFor(v)) \/ Matching("indicator", v) > PageLimit
    BY <1>11, <2>4
  <2>6. QED
    BY <1>12, <2>1, <2>3, <2>5
<1>14. ASSUME NEW e \in ToSet(events) PROVE Summary(events).first_seen <= e.id
  <2> DEFINE ids == {f.id : f \in ToSet(events)}
  <2>1. events # <<>> /\ e.id \in ids /\ ids \in SUBSET Nat
    <3> HIDE DEF events
    <3>1. \A f \in ToSet(events) : f \in StoredEvent
      BY <1>12 DEF ToSet
    <3>2. QED
      BY <1>12, <3>1 DEF ToSet, StoredEvent
  <2>2. Summary(events).first_seen = Min(ids)
    BY <2>1 DEF Summary
  <2> HIDE DEF ids
  <2>3. \A m \in ids : Min(ids) <= m
    BY <2>1, LeastOf DEF Min
  <2>4. QED
    BY <2>1, <2>2, <2>3
<1>15. Summary(events).event_count = Cardinality(ToSet(events))
  BY <1>12, DistinctCounts DEF Summary
<1>16. QED
  BY <1>8, <1>13, <1>14, <1>15 DEF Workspace, timeline

-----------------------------------------------------------------------------
(* The process graph *)

\* A step, taken again and again.
Steps(g, S, base, step, l) ==
    g \in [0..l -> S] /\ g[0] = base /\ \A n \in 1..l : g[n] = step[g[n - 1]]

\* For a step on a set there is such a function.
LEMMA StepsExist ==
    ASSUME NEW S, NEW base, NEW step, NEW l, base \in S, step \in [S -> S], l \in Nat
    PROVE  \E g : Steps(g, S, base, step, l)
<1> DEFINE G == {m \in 0..l : \E g : Steps(g, S, base, step, m)}
<1>1. 0 \in G
  <2> DEFINE g == [n \in 0..0 |-> base]
  <2>1. Steps(g, S, base, step, 0) /\ 0 \in 0..l
    BY DEF Steps
  <2>2. QED
    BY <2>1
<1>2. ASSUME NEW m \in 1..l, m - 1 \in G PROVE m \in G
  <2>1. PICK g : Steps(g, S, base, step, m - 1)
    BY <1>2
  <2> DEFINE h == [n \in 0..m |-> IF n = m THEN step[g[m - 1]] ELSE g[n]]
  <2>2. \A n \in 0..m : n # m => n \in 0..(m - 1) /\ h[n] = g[n]
    OBVIOUS
  <2>3. m \in 0..m /\ m - 1 \in 0..(m - 1) /\ h[m] = step[g[m - 1]]
    OBVIOUS
  <2>4. h \in [0..m -> S]
    BY <2>1, <2>3 DEF Steps
  <2> HIDE DEF h
  <2>5. h[0] = base
    <3>1. 0 \in 0..m /\ 0 # m
      OBVIOUS
    <3>2. QED
      BY <2>1, <2>2, <3>1 DEF Steps
  <2>6. ASSUME NEW n \in 1..m PROVE h[n] = step[h[n - 1]]
    <3>1. n \in 0..m /\ n - 1 \in 0..m /\ n - 1 # m /\ h[n - 1] = g[n - 1]
      BY <2>2
    <3>2. CASE n = m
      BY <2>3, <3>1, <3>2
    <3>3. CASE n # m
      <4>1. n \in 1..(m - 1) /\ h[n] = g[n]
        BY <2>2, <3>1, <3>3
      <4>2. QED
        BY <2>1, <3>1, <4>1 DEF Steps
    <3>4. QED
      BY <3>2, <3>3
  <2>7. QED
    BY <2>4, <2>5, <2>6 DEF Steps
<1> HIDE DEF G
<1>3. l \in G
  BY <1>1, <1>2, UpTo
<1>4. QED
  BY <1>3 DEF G

\* A path: from x on, each the next of the one before it, and none twice.
IsPath(p, x, known, up) ==
    /\ p \in Seq(known \cup {x}) /\ Len(p) >= 1 /\ p[1] = x /\ IsInjective(p)
    /\ \A i \in 2..Len(p) : p[i] = up[p[i - 1]] /\ p[i] \in known

\* One step up leaves a path a path.
LEMMA PathGrows ==
    ASSUME NEW x, NEW known, NEW up, NEW p, IsPath(p, x, known, up),
           up[p[Len(p)]] \in known \ ToSet(p)
    PROVE  /\ IsPath(Append(p, up[p[Len(p)]]), x, known, up)
           /\ Len(Append(p, up[p[Len(p)]])) = Len(p) + 1
<1> DEFINE u == up[p[Len(p)]]
           q == Append(p, u)
<1>1. p \in Seq(known \cup {x}) /\ Len(p) \in Nat /\ Len(p) >= 1 /\ DOMAIN p = 1..Len(p)
  BY DEF IsPath
<1>2. /\ q \in Seq(known \cup {x}) /\ Len(q) = Len(p) + 1 /\ q[Len(p) + 1] = u
      /\ \A i \in 1..Len(p) : q[i] = p[i]
      /\ DOMAIN q = 1..(Len(p) + 1)
  BY <1>1
<1> HIDE DEF q
<1>3. \A i \in 1..Len(p) : p[i] # u
  BY <1>1 DEF ToSet
<1>4. \A i \in DOMAIN q : i \in 1..Len(p) \/ i = Len(p) + 1
  BY <1>1, <1>2
<1>5. IsInjective(q)
  <2>1. ASSUME NEW i \in DOMAIN q, NEW j \in DOMAIN q, q[i] = q[j] PROVE i = j
    <3>1. CASE i \in 1..Len(p) /\ j \in 1..Len(p)
      BY <1>1, <1>2, <2>1, <3>1 DEF IsPath, IsInjective
    <3>2. CASE i = Len(p) + 1 /\ j = Len(p) + 1
      BY <3>2
    <3>3. CASE i = Len(p) + 1 /\ j \in 1..Len(p)
      BY <1>2, <1>3, <2>1, <3>3
    <3>4. CASE i \in 1..Len(p) /\ j = Len(p) + 1
      BY <1>2, <1>3, <2>1, <3>4
    <3>5. QED
      BY <1>4, <3>1, <3>2, <3>3, <3>4
  <2>2. QED
    BY <2>1 DEF IsInjective
<1>6. ASSUME NEW i \in 2..Len(q) PROVE q[i] = up[q[i - 1]] /\ q[i] \in known
  <2>1. i - 1 \in 1..Len(p) /\ q[i - 1] = p[i - 1]
    BY <1>1, <1>2
  <2>2. CASE i \in 1..Len(p)
    <3>1. i \in 2..Len(p)
      BY <2>2
    <3>2. QED
      BY <1>2, <2>1, <2>2, <3>1 DEF IsPath
  <2>3. CASE i = Len(p) + 1
    BY <1>1, <1>2, <2>1, <2>3
  <2>4. QED
    BY <1>1, <1>2, <2>2, <2>3
<1>7. q[1] = x
  BY <1>1, <1>2 DEF IsPath
<1>8. QED
  BY <1>1, <1>2, <1>5, <1>6, <1>7 DEF IsPath, q

\* A path that is as long as there are known ones has them all.
LEMMA PathIsFull ==
    ASSUME NEW x, NEW known, IsFiniteSet(known), NEW up, NEW p, IsPath(p, x, known, up),
           Len(p) = Cardinality(known) + 1
    PROVE  known \subseteq ToSet(p)
<1> DEFINE c == Cardinality(known)
           f == [i \in 1..c |-> p[i + 1]]
<1>1. c \in Nat /\ IsFiniteSet(1..c) /\ Cardinality(1..c) = c
  BY FS_CardinalityType, FS_Interval
<1>2. DOMAIN p = 1..(c + 1)
  BY <1>1 DEF IsPath
<1>3. \A i \in 1..c : i + 1 \in 2..Len(p) /\ i + 1 \in DOMAIN p
  BY <1>1, <1>2
<1>4. f \in [1..c -> known]
  BY <1>3 DEF IsPath
<1>5. \A i, j \in 1..c : f[i] = f[j] => i = j
  BY <1>3 DEF IsPath, IsInjective
<1> HIDE DEF f
<1>6. f \in Injection(1..c, known)
  BY <1>4, <1>5 DEF Injection, IsInjective
<1>7. f \in Surjection(1..c, known)
  BY <1>1, <1>6, FS_Injection
<1>8. ASSUME NEW u \in known PROVE u \in ToSet(p)
  <2>1. PICK i \in 1..c : f[i] = u
    BY <1>7 DEF Surjection
  <2>2. QED
    BY <1>3, <2>1 DEF ToSet, f
<1>9. QED
  BY <1>8

\* Path is one that cannot go on.
LEMMA PathEnds ==
    ASSUME NEW x, NEW known, IsFiniteSet(known), NEW up
    PROVE  LET p == Path(x, known, up) IN
           IsPath(p, x, known, up) /\ up[p[Len(p)]] \notin known \ ToSet(p)
<1> DEFINE c == Cardinality(known)
           S == Seq(known \cup {x})
           Next(p) == IF up[p[Len(p)]] \in known \ ToSet(p)
                      THEN Append(p, up[p[Len(p)]]) ELSE p
           Def(f) == [n \in 0..c |-> IF n = 0 THEN <<x>> ELSE Next(f[n - 1])]
           climb == CHOOSE f : f = Def(f)
<1>1. c \in Nat
  BY FS_CardinalityType
<1>2. Path(x, known, up) = climb[c]
  BY DEF Path
<1>3. PICK g \in [0..c -> S] : g[0] = <<x>> /\ \A n \in 1..c : g[n] = Next(g[n - 1])
  <2> DEFINE step == [p \in S |-> Next(p)]
  <2>1. <<x>> \in S
    OBVIOUS
  <2>2. \A p \in S : Next(p) \in S
    OBVIOUS
  <2>3. step \in [S -> S]
    BY <2>2
  <2>4. PICK g : Steps(g, S, <<x>>, step, c)
    <3> HIDE DEF step, S, c
    <3>1. QED
      BY <1>1, <2>1, <2>3, StepsExist
  <2>5. ASSUME NEW n \in 1..c PROVE g[n] = Next(g[n - 1])
    <3>1. n - 1 \in 0..c
      BY <1>1
    <3> HIDE DEF S, Next
    <3>2. g[n - 1] \in S
      BY <2>4, <3>1 DEF Steps
    <3>3. QED
      BY <2>4, <3>2 DEF Steps
  <2>6. QED
    BY <2>4, <2>5 DEF Steps
<1> HIDE DEF Next, S
<1>4. g = Def(g)
  <2>1. ASSUME NEW n \in 0..c PROVE g[n] = Def(g)[n]
    <3>1. n = 0 \/ n \in 1..c
      BY <1>1
    <3>2. QED
      BY <1>3, <3>1
  <2>2. g = [n \in 0..c |-> g[n]] /\ Def(g) = [n \in 0..c |-> Def(g)[n]]
    BY <1>3
  <2> HIDE DEF Def
  <2>3. QED
    BY <2>1, <2>2
<1>5. climb = Def(climb)
  <2> HIDE DEF Def
  <2>1. QED
    BY <1>4
<1> HIDE DEF climb
<1>6. climb[0] = <<x>> /\ \A n \in 1..c : climb[n] = Next(climb[n - 1])
  BY <1>1, <1>5
<1> DEFINE Stuck(p) == up[p[Len(p)]] \notin known \ ToSet(p)
           OK(p, n) == IsPath(p, x, known, up) /\ (Len(p) = n + 1 \/ Stuck(p))
           G == {n \in 0..c : OK(climb[n], n)}
<1>7. 0 \in G
  <2>1. IsPath(<<x>>, x, known, up) /\ Len(<<x>>) = 0 + 1
    BY DEF IsPath, IsInjective
  <2>2. QED
    BY <1>1, <1>6, <2>1
<1>8. ASSUME NEW n \in 1..c, n - 1 \in G PROVE n \in G
  <2> DEFINE p == climb[n - 1]
  <2>1. OK(p, n - 1) /\ climb[n] = Next(p) /\ n \in 0..c
    BY <1>1, <1>6, <1>8
  <2> HIDE DEF p
  <2>2. CASE Stuck(p)
    <3>1. climb[n] = p
      BY <2>1, <2>2 DEF Next
    <3>2. QED
      BY <2>1, <2>2, <3>1
  <2>3. CASE ~Stuck(p)
    <3>1. climb[n] = Append(p, up[p[Len(p)]]) /\ Len(p) = n
      BY <2>1, <2>3 DEF Next
    <3>2. IsPath(climb[n], x, known, up) /\ Len(climb[n]) = n + 1
      BY <2>1, <2>3, <3>1, PathGrows
    <3>3. QED
      BY <2>1, <3>2
  <2>4. QED
    BY <2>2, <2>3
<1> HIDE DEF G
<1>9. 0..c \subseteq G
  BY <1>1, <1>7, <1>8, UpTo
<1>10. OK(climb[c], c)
  BY <1>1, <1>9 DEF G
<1>11. Stuck(climb[c])
  <2>1. CASE Len(climb[c]) = c + 1
    BY <1>10, <2>1, PathIsFull
  <2>2. QED
    BY <1>10, <2>1
<1>12. QED
  BY <1>2, <1>10, <1>11

-----------------------------------------------------------------------------
\* What the parents are: of each process another, older one, or none.
ParentsOK ==
    /\ parentOf \in [Processes -> Processes \cup {Absent}]
    /\ \A y \in Processes : parentOf[y] # Absent => parentOf[y] < y

\* A chain: from x to parent to parent.
IsChain(q, x) ==
    /\ q \in Seq(Processes) /\ Len(q) >= 1 /\ q[1] = x
    /\ \A i \in 2..Len(q) : q[i] = parentOf[q[i - 1]]
Ancestry(x) == Path(x, Processes, parentOf)

\* Further up a chain the processes are older.
LEMMA ChainDescends ==
    ASSUME ParentsOK, NEW x, NEW q, IsChain(q, x)
    PROVE  \A i, j \in 1..Len(q) : i < j => q[j] < q[i]
<1>1. Len(q) \in Nat /\ Len(q) >= 1 /\ \A i \in 1..Len(q) : q[i] \in Processes /\ q[i] \in Nat
  <2>1. Len(q) \in Nat /\ Len(q) >= 1 /\ \A i \in 1..Len(q) : q[i] \in Processes
    BY DEF IsChain
  <2>2. \A y \in Processes : y \in Nat
    BY InvestigationAssumption
  <2>3. QED
    BY <2>1, <2>2
<1> DEFINE l == Len(q) - 1
           N == {m \in 0..l : \A i \in 1..m : q[m + 1] < q[i]}
<1>2. l \in Nat
  BY <1>1
<1>3. 0 \in N
  BY <1>2
<1>4. ASSUME NEW m \in 1..l, m - 1 \in N PROVE m \in N
  <2>1. m \in 1..Len(q) /\ m + 1 \in 2..Len(q) /\ m + 1 \in 1..Len(q) /\ m \in 0..l
    BY <1>1
  <2>2. q[m + 1] = parentOf[q[m]]
    <3>1. m + 1 - 1 = m
      BY <2>1
    <3>2. QED
      BY <2>1, <3>1 DEF IsChain
  <2>3. q[m + 1] < q[m]
    BY <1>1, <2>1, <2>2, InvestigationAssumption DEF ParentsOK
  <2>4. \A i \in 1..(m - 1) : q[m] < q[i]
    <3>1. m - 1 + 1 = m
      BY <2>1
    <3>2. QED
      BY <1>4, <3>1
  <2>5. ASSUME NEW i \in 1..m PROVE q[m + 1] < q[i]
    <3>1. i \in 1..Len(q) /\ (i = m \/ i \in 1..(m - 1))
      BY <1>1
    <3>2. CASE i = m
      BY <2>3, <3>2
    <3>3. CASE i \in 1..(m - 1)
      <4>1. q[m] < q[i]
        BY <2>4, <3>3
      <4>2. QED
        BY <1>1, <2>1, <2>3, <3>1, <4>1
    <3>4. QED
      BY <3>1, <3>2, <3>3
  <2>6. QED
    BY <2>1, <2>5
<1> HIDE DEF N
<1>5. 0..l \subseteq N
  BY <1>2, <1>3, <1>4, UpTo
<1>6. ASSUME NEW i \in 1..Len(q), NEW j \in 1..Len(q), i < j PROVE q[j] < q[i]
  <2>1. j - 1 \in 0..l /\ i \in 1..(j - 1) /\ j - 1 + 1 = j
    BY <1>1, <1>6
  <2>2. j - 1 \in N
    BY <1>5, <2>1
  <2>3. QED
    BY <2>1, <2>2 DEF N
<1>7. QED
  BY <1>6

\* The ancestry of a process is a chain that ends where no parent is.
LEMMA AncestryIs ==
    ASSUME ParentsOK, NEW x \in Processes
    PROVE  /\ IsChain(Ancestry(x), x) /\ Len(Ancestry(x)) \in Nat
           /\ parentOf[Ancestry(x)[Len(Ancestry(x))]] = Absent
<1> DEFINE p == Ancestry(x)
           last == p[Len(p)]
<1>1. IsPath(p, x, Processes, parentOf) /\ parentOf[last] \notin Processes \ ToSet(p)
  BY PathEnds, InvestigationAssumption DEF Ancestry
<1> HIDE DEF p
<1>2. Processes \cup {x} = Processes
  OBVIOUS
<1>3. IsChain(p, x) /\ Len(p) \in Nat /\ Len(p) >= 1
  BY <1>1, <1>2 DEF IsPath, IsChain
<1>4. last \in Processes
  BY <1>3 DEF IsChain
<1>5. ASSUME parentOf[last] \in ToSet(p) PROVE FALSE
  <2>1. PICK i \in 1..Len(p) : p[i] = parentOf[last]
    BY <1>3, <1>5 DEF ToSet, IsChain
  <2>2. p[i] \in Processes /\ p[i] \in Nat /\ last \in Nat
    <3>1. p[i] \in Processes
      BY <1>3 DEF IsChain
    <3>2. QED
      BY <1>4, <3>1, InvestigationAssumption
  <2>3. p[i] < last
    BY <1>4, <2>1, <2>2, InvestigationAssumption DEF ParentsOK
  <2>4. i = Len(p) \/ last < p[i]
    BY <1>3, ChainDescends
  <2>5. QED
    BY <2>2, <2>3, <2>4
<1>6. QED
  BY <1>1, <1>3, <1>4, <1>5 DEF p, ParentsOK

\* So every chain is its beginning, ...
LEMMA ChainIsPrefix ==
    ASSUME ParentsOK, NEW x \in Processes, NEW q, IsChain(q, x)
    PROVE  Len(q) <= Len(Ancestry(x)) /\ \A i \in 1..Len(q) : q[i] = Ancestry(x)[i]
<1> DEFINE p == Ancestry(x)
           l == Len(q) - 1
           Agree(m) == m + 1 <= Len(p) /\ \A i \in 1..(m + 1) : q[i] = p[i]
           N == {m \in 0..l : Agree(m)}
<1>1. /\ p \in Seq(Processes) /\ Len(p) \in Nat /\ Len(p) >= 1 /\ p[1] = x
      /\ \A i \in 2..Len(p) : p[i] = parentOf[p[i - 1]]
      /\ parentOf[p[Len(p)]] = Absent
  BY AncestryIs DEF IsChain
<1> HIDE DEF p
<1>2. /\ Len(q) \in Nat /\ Len(q) >= 1 /\ q[1] = x /\ l \in Nat
      /\ \A i \in 1..Len(q) : q[i] \in Processes
      /\ \A i \in 2..Len(q) : q[i] = parentOf[q[i - 1]]
  BY DEF IsChain
<1>3. 0 \in N
  BY <1>1, <1>2
<1>4. ASSUME NEW m \in 1..l, m - 1 \in N PROVE m \in N
  <2>1. m \in 0..l /\ m + 1 \in 2..Len(q) /\ m + 1 \in 1..Len(q) /\ m + 1 - 1 = m /\ m - 1 + 1 = m
    BY <1>2
  <2>2. m <= Len(p) /\ \A i \in 1..m : q[i] = p[i]
    BY <1>4, <2>1
  <2>3. q[m + 1] = parentOf[p[m]]
    BY <1>2, <2>1, <2>2
  <2>4. m # Len(p)
    BY <1>1, <1>2, <2>1, <2>3, InvestigationAssumption
  <2>5. m + 1 \in 2..Len(p)
    BY <1>1, <2>1, <2>2, <2>4
  <2>6. q[m + 1] = p[m + 1]
    BY <1>1, <2>1, <2>3, <2>5
  <2>7. \A i \in 1..(m + 1) : i \in 1..m \/ i = m + 1
    OBVIOUS
  <2>8. Agree(m)
    BY <2>2, <2>5, <2>6, <2>7
  <2>9. QED
    BY <2>1, <2>8
<1> HIDE DEF N
<1>5. 0..l \subseteq N
  <2> HIDE DEF l
  <2>1. QED
    BY <1>2, <1>3, <1>4, UpTo
<1>6. Agree(l)
  <2> HIDE DEF l, Agree
  <2>1. l \in N
    BY <1>2, <1>5
  <2>2. QED
    BY <2>1 DEF N
<1>7. QED
  BY <1>1, <1>2, <1>6 DEF p

\* ... as the pages show it, and all of it if it ends where no parent is.
LEMMA ShownIsPrefix ==
    ASSUME ParentsOK, NEW x \in Processes, NEW q, IsChain(q, x)
    PROVE  /\ IsPrefix(Tail(q), TrueAncestors(x))
           /\ IsPrefix(q, <<x>> \o TrueAncestors(x))
           /\ parentOf[q[Len(q)]] = Absent => Tail(q) = TrueAncestors(x)
<1> DEFINE p == Ancestry(x)
<1>1. /\ p \in Seq(Processes) /\ Len(p) \in Nat /\ Len(p) >= 1 /\ p[1] = x
      /\ \A i \in 2..Len(p) : p[i] = parentOf[p[i - 1]]
  BY AncestryIs DEF IsChain
<1>2. Len(q) <= Len(p) /\ \A i \in 1..Len(q) : q[i] = p[i]
  BY ChainIsPrefix
<1>3. TrueAncestors(x) = Tail(p)
  BY DEF TrueAncestors, Ancestry
<1> HIDE DEF p
<1>4. q \in Seq(Processes) /\ Len(q) \in Nat /\ Len(q) >= 1
  BY DEF IsChain
<1>5. IsPrefix(Tail(q), Tail(p))
  <2>1. /\ Tail(q) \in Seq(Processes) /\ Len(Tail(q)) = Len(q) - 1
        /\ Tail(p) \in Seq(Processes) /\ Len(Tail(p)) = Len(p) - 1
        /\ \A i \in 1..(Len(q) - 1) : Tail(q)[i] = q[i + 1]
        /\ \A i \in 1..(Len(p) - 1) : Tail(p)[i] = p[i + 1]
    BY <1>1, <1>4
  <2>2. \A i \in 1..(Len(q) - 1) : i + 1 \in 1..Len(q) /\ i \in 1..(Len(p) - 1)
    BY <1>1, <1>2, <1>4
  <2>3. \A i \in 1..(Len(q) - 1) : Tail(q)[i] = Tail(p)[i]
    BY <1>2, <2>1, <2>2
  <2> DEFINE s == Tail(q)
             t == Tail(p)
  <2> HIDE DEF s, t
  <2>4. /\ s \in Seq(Processes) /\ t \in Seq(Processes) /\ Len(s) <= Len(t)
        /\ \A i \in 1..Len(s) : s[i] = t[i]
    BY <1>1, <1>2, <1>4, <2>1, <2>3 DEF s, t
  <2>5. IsPrefix(s, t)
    BY <2>4 DEF IsPrefix
  <2>6. QED
    BY <2>5 DEF s, t
<1>6. p = <<x>> \o Tail(p)
  BY <1>1
<1>7. IsPrefix(q, p)
  BY <1>1, <1>2, <1>4 DEF IsPrefix
<1>8. ASSUME parentOf[q[Len(q)]] = Absent PROVE q = p
  <2>1. CASE Len(q) < Len(p)
    <3>1. Len(q) + 1 \in 2..Len(p) /\ Len(q) + 1 - 1 = Len(q) /\ Len(q) + 1 \in 1..Len(p)
      BY <1>1, <1>4, <2>1
    <3>2. p[Len(q) + 1] = parentOf[q[Len(q)]] /\ p[Len(q) + 1] \in Processes
      BY <1>1, <1>2, <1>4, <3>1
    <3>3. QED
      BY <1>8, <3>2, InvestigationAssumption
  <2>2. CASE Len(q) = Len(p)
    BY <1>1, <1>2, <1>4, <2>2
  <2>3. QED
    BY <1>1, <1>2, <1>4, <2>1, <2>2
<1>9. QED
  BY <1>3, <1>5, <1>6, <1>7, <1>8

\* Who is an ancestor of a process is older.
LEMMA AncestorsAreOlder ==
    ASSUME ParentsOK, NEW y \in Processes
    PROVE  \A z \in ToSet(TrueAncestors(y)) : z \in Processes /\ z < y
<1> DEFINE p == Ancestry(y)
<1>1. IsChain(p, y) /\ Len(p) \in Nat /\ TrueAncestors(y) = Tail(p)
  BY AncestryIs DEF TrueAncestors, Ancestry
<1> HIDE DEF p
<1>2. p \in Seq(Processes) /\ Len(p) >= 1 /\ p[1] = y
  BY <1>1 DEF IsChain
<1>3. \A z \in ToSet(Tail(p)) : \E i \in 2..Len(p) : z = p[i]
  BY <1>1, <1>2 DEF ToSet
<1>4. \A i \in 2..Len(p) : p[i] \in Processes /\ p[i] < y
  BY <1>1, <1>2, ChainDescends
<1>5. QED
  BY <1>1, <1>3, <1>4

\* The parent of a process is an ancestor, and so are the parent's.
LEMMA ParentIsAncestor ==
    ASSUME ParentsOK, NEW y \in Processes, parentOf[y] \in Processes
    PROVE  {parentOf[y]} \cup ToSet(TrueAncestors(parentOf[y])) \subseteq ToSet(TrueAncestors(y))
<1> DEFINE z == parentOf[y]
           t == Ancestry(z)
           p == Ancestry(y)
           q == <<y>> \o t
<1>1. /\ t \in Seq(Processes) /\ Len(t) \in Nat /\ Len(t) >= 1 /\ t[1] = z
      /\ \A i \in 2..Len(t) : t[i] = parentOf[t[i - 1]]
      /\ p \in Seq(Processes) /\ Len(p) \in Nat /\ Len(p) >= 1
  BY AncestryIs DEF IsChain
<1>2. TrueAncestors(z) = Tail(t) /\ TrueAncestors(y) = Tail(p)
  BY DEF TrueAncestors, Ancestry
<1> HIDE DEF t, p
<1>3. /\ q \in Seq(Processes) /\ Len(q) = Len(t) + 1 /\ q[1] = y
      /\ \A i \in 1..Len(t) : q[i + 1] = t[i]
  BY <1>1
<1> HIDE DEF q
<1>4. ASSUME NEW i \in 2..Len(q) PROVE q[i] = parentOf[q[i - 1]]
  <2>1. i - 1 \in 1..Len(t) /\ i - 1 + 1 = i /\ q[i] = t[i - 1]
    BY <1>1, <1>3
  <2>2. CASE i = 2
    BY <1>1, <1>3, <2>1, <2>2
  <2>3. CASE i # 2
    <3>1. i \in 2..(Len(t) + 1) /\ i \in Nat
      BY <1>1, <1>3
    <3>2. i - 1 \in 2..Len(t) /\ i - 2 \in 1..Len(t) /\ i - 2 + 1 = i - 1 /\ i - 1 - 1 = i - 2
      BY <1>1, <2>3, <3>1
    <3>3. t[i - 1] = parentOf[t[i - 2]] /\ q[i - 1] = t[i - 2]
      BY <1>1, <1>3, <3>2
    <3>4. QED
      BY <2>1, <3>3
  <2>4. QED
    BY <2>2, <2>3
<1>5. IsChain(q, y)
  BY <1>1, <1>3, <1>4 DEF IsChain
<1>6. Len(q) <= Len(p) /\ \A i \in 1..Len(q) : q[i] = p[i]
  BY <1>5, ChainIsPrefix DEF p
<1>7. \A i \in 1..Len(t) : i \in 1..(Len(p) - 1) /\ t[i] = p[i + 1]
  BY <1>1, <1>3, <1>6
<1>8. /\ DOMAIN Tail(p) = 1..(Len(p) - 1) /\ \A i \in 1..(Len(p) - 1) : Tail(p)[i] = p[i + 1]
  BY <1>1
<1>9. \A i \in 1..Len(t) : t[i] \in ToSet(Tail(p))
  BY <1>7, <1>8 DEF ToSet
<1>10. \A u \in ToSet(Tail(t)) : \E i \in 1..Len(t) : u = t[i]
  BY <1>1 DEF ToSet
<1>11. z \in ToSet(Tail(p))
  BY <1>1, <1>9
<1>12. QED
  BY <1>2, <1>9, <1>10, <1>11

-----------------------------------------------------------------------------
\* What an event says of parents is true, and it has a reason if it names none.
Says(e) ==
    LET p == parentOf[Entity(e)] IN
    /\ Parent(e) \in {p, Absent}
    /\ e.missing_parent => Parent(e) = Absent
    /\ IsProcessEvent(e) /\ p # Absent /\ Parent(e) = Absent => e.missing_parent
    /\ e.process_id = PidOf[Entity(e)]
    /\ e.parent_process_id # Absent => p # Absent /\ e.parent_process_id = PidOf[p]
Faithful(w) == w \in Seq(StoredEvent) /\ \A e \in ToSet(w) : Says(e)

\* Whatever is seen of a process says so.
LEMMA EventSays ==
    ASSUME parentOf \in [Processes -> Processes \cup {Absent}],
           NEW x \in Processes, NEW e \in EventsOf(x), NEW n
    PROVE  Says([e EXCEPT !.id = n])
<1> DEFINE base == [id |-> 0, event_type |-> "network_connection",
                 host |-> Endpoint, process_entity_id |-> x, process_id |-> PidOf[x],
                 process_name |-> NameOf[x], parent_process_id |-> Absent,
                 remote_ip |-> Absent, parent_process_entity_id |-> Absent,
                 missing_parent |-> FALSE]
           p == parentOf[x]
           lifecycle == [base EXCEPT !.parent_process_id = IF p = Absent THEN p ELSE PidOf[p]]
           Lifecycle(type, q) ==
             [lifecycle EXCEPT !.event_type = type, !.parent_process_entity_id = q,
                               !.missing_parent = p # Absent /\ q = Absent]
           Connections == {[base EXCEPT !.remote_ip = r] : r \in RemotesOf[x]}
           Lifecycles == {Lifecycle(type, q) : type \in {"process_start", "process_stop"},
                                               q \in {p, Absent}}
<1>1. EventsOf(x) = Connections \cup Lifecycles
  BY DEF EventsOf
<1>2. ASSUME e \in Lifecycles
      PROVE  \E type \in {"process_start", "process_stop"}, q \in {p, Absent} :
                e = Lifecycle(type, q)
  <2> HIDE DEF Lifecycle, p
  <2>1. QED
    BY <1>2
<1> HIDE DEF Lifecycles
<1>3. ASSUME NEW r \in RemotesOf[x], e = [base EXCEPT !.remote_ip = r]
      PROVE  Says([e EXCEPT !.id = n])
  BY <1>3 DEF Says, Entity, Parent, IsProcessEvent
<1>4. ASSUME NEW type \in {"process_start", "process_stop"}, NEW q \in {p, Absent},
             e = Lifecycle(type, q)
      PROVE  Says([e EXCEPT !.id = n])
  <2> DEFINE new == [e EXCEPT !.id = n]
  <2>1. /\ Entity(new) = x /\ Parent(new) = q /\ new.process_id = PidOf[x]
        /\ new.missing_parent = (p # Absent /\ q = Absent)
        /\ new.parent_process_id = IF p = Absent THEN p ELSE PidOf[p]
    BY <1>4 DEF Entity, Parent
  <2> HIDE DEF new, p
  <2>2. Says(new)
    BY <2>1 DEF Says, p
  <2>3. QED
    BY <2>2 DEF new
<1> HIDE DEF Connections, base
<1>5. e \in Connections => \E r \in RemotesOf[x] : e = [base EXCEPT !.remote_ip = r]
  BY DEF Connections
<1>6. QED
  BY <1>1, <1>2, <1>3, <1>4, <1>5

\* So the whole store is faithful.
GraphInv == InvestigationInv /\ ParentsOK /\ Faithful(stored)

\* It is so at the start, and every event that arrives leaves it so.
LEMMA GraphInvariant == InvestigationSpec => []GraphInv
<1>1. InvestigationInit => ParentsOK /\ Faithful(stored)
  <2> SUFFICES ASSUME InvestigationInit PROVE ParentsOK /\ Faithful(stored)
    OBVIOUS
  <2>1. ParentsOK
    BY DEF InvestigationInit, ParentsOK
  <2>2. stored = <<>> /\ <<>> \in Seq(StoredEvent) /\ ToSet(<<>>) = {}
    BY DEF InvestigationInit, ToSet
  <2>3. QED
    BY <2>1, <2>2 DEF Faithful
<1>2. /\ InvestigationInv /\ InvestigationInv' /\ ParentsOK /\ Faithful(stored)
      /\ [InvestigationNext]_investigationVars
      => (ParentsOK /\ Faithful(stored))'
  <2> SUFFICES ASSUME InvestigationInv, InvestigationInv', ParentsOK, Faithful(stored),
                      [InvestigationNext]_investigationVars
               PROVE  (ParentsOK /\ Faithful(stored))'
    OBVIOUS
  <2>1. UNCHANGED parentOf
    BY DEF InvestigationNext, Observe, investigationVars
  <2>2. ASSUME NEW x \in Processes, Observe(x) PROVE \A e \in ToSet(stored)' : Says(e)
    <3>1. PICK e \in EventsOf(x) : stored' = Append(stored, [e EXCEPT !.id = Len(stored) + 1])
      BY <2>2 DEF Observe
    <3> DEFINE new == [e EXCEPT !.id = Len(stored) + 1]
    <3>2. Says(new)
      BY EventSays DEF ParentsOK
    <3>3. stored \in Seq(StoredEvent)
      BY DEF Faithful
    <3> HIDE DEF new
    <3>4. /\ DOMAIN stored' = 1..(Len(stored) + 1) /\ DOMAIN stored = 1..Len(stored)
          /\ stored'[Len(stored) + 1] = new
          /\ \A i \in DOMAIN stored : stored'[i] = stored[i]
      BY <3>1, <3>3 DEF new
    <3>5. \A i \in DOMAIN stored' : i \in DOMAIN stored \/ i = Len(stored) + 1
      BY <3>3, <3>4
    <3>6. \A i \in DOMAIN stored : Says(stored[i])
      BY DEF Faithful, ToSet
    <3>7. QED
      BY <3>2, <3>4, <3>5, <3>6 DEF ToSet
  <2>3. ASSUME UNCHANGED stored PROVE \A e \in ToSet(stored)' : Says(e)
    BY <2>3 DEF Faithful
  <2>4. \A e \in ToSet(stored)' : Says(e)
    BY <2>2, <2>3 DEF InvestigationNext, investigationVars
  <2>5. \A e : Says(e)' <=> Says(e)
    BY <2>1 DEF Says
  <2>6. QED
    BY <2>1, <2>4, <2>5 DEF Faithful, InvestigationInv, ParentsOK
<1>3. QED
  BY <1>1, <1>2, InvestigationInvariant, PTL DEF InvestigationSpec, GraphInv

\* And so is what the graph is built from.
LEMMA WindowIsFaithful == GraphInv => Faithful(Window)
<1> SUFFICES ASSUME GraphInv PROVE Faithful(Window)
  OBVIOUS
<1> DEFINE l == Latest(stored, Limit)
<1>1. stored \in Seq(StoredEvent) /\ Limit \in Nat
  BY InvestigationAssumption DEF GraphInv, Faithful
<1>2. l \in Seq(StoredEvent) /\ \A e \in ToSet(l) : \E i \in DOMAIN stored : e = stored[i]
  BY <1>1, LatestKeeps, LatestAreFound
<1> HIDE DEF l
<1>3. Window = Reverse(l)
  BY DEF Window, l
<1>4. Reverse(l) \in Seq(StoredEvent) /\ \A e \in ToSet(Reverse(l)) : e \in ToSet(l)
  <2>1. Len(l) \in Nat /\ \A i \in 1..Len(l) : Len(l) - i + 1 \in 1..Len(l)
    BY <1>2
  <2> DEFINE r == Reverse(l)
  <2>2. r = [i \in 1..Len(l) |-> l[Len(l) - i + 1]]
    BY DEF Reverse
  <2>3. r \in [1..Len(l) -> StoredEvent]
    BY <1>2, <2>1, <2>2
  <2>4. \A i \in DOMAIN r : r[i] \in ToSet(l)
    BY <1>2, <2>1, <2>2 DEF ToSet
  <2> HIDE DEF r
  <2>5. r \in Seq(StoredEvent) /\ \A e \in ToSet(r) : e \in ToSet(l)
    BY <2>1, <2>3, <2>4 DEF ToSet
  <2>6. QED
    BY <2>5 DEF r
<1>5. \A e \in ToSet(Window) : e \in ToSet(stored)
  BY <1>2, <1>3, <1>4 DEF ToSet
<1>6. QED
  BY <1>3, <1>4, <1>5 DEF GraphInv, Faithful

-----------------------------------------------------------------------------
\* The process events of a window are in it, and of processes.
LEMMA ProcessEventsAre ==
    ASSUME NEW w, Faithful(w)
    PROVE  /\ ProcessEvents(w) \in Seq(StoredEvent)
           /\ Len(ProcessEvents(w)) \in Nat /\ Len(w) \in Nat
           /\ Len(ProcessEvents(w)) <= Len(w)
           /\ \A e \in ToSet(ProcessEvents(w)) :
                 e \in StoredEvent /\ IsProcessEvent(e) /\ Says(e)
           /\ Known(w) \in SUBSET Processes /\ IsFiniteSet(Known(w)) /\ Absent \notin Known(w)
<1> DEFINE P == ProcessEvents(w)
           at == {i \in DOMAIN w : IsProcessEvent(w[i])}
<1>1. w \in Seq(StoredEvent) /\ \A i \in DOMAIN w : w[i] \in StoredEvent /\ Says(w[i])
  BY DEF Faithful, ToSet
<1>2. P = Picked(w, at)
  BY DEF ProcessEvents
<1>3. at \in SUBSET (DOMAIN w) /\ \A i \in at : IsProcessEvent(w[i])
  OBVIOUS
<1> HIDE DEF at, P
<1>4. /\ P \in Seq(StoredEvent) /\ Len(P) = Cardinality(at)
      /\ \A e \in ToSet(P) : \E i \in at : e = w[i]
  BY <1>1, <1>2, <1>3, PickedAll
<1>5. Len(w) \in Nat /\ Len(P) \in Nat /\ Len(P) <= Len(w)
  <2>1. Len(w) \in Nat /\ at \in SUBSET (1..Len(w))
    BY <1>1, <1>3
  <2>2. Cardinality(at) <= Len(w)
    <3>1. IsFiniteSet(1..Len(w)) /\ Cardinality(1..Len(w)) = Len(w)
      BY <2>1, FS_Interval
    <3>2. QED
      BY <2>1, <3>1, FS_Subset
  <2>3. QED
    BY <1>4, <2>1, <2>2
<1>6. \A e \in ToSet(P) : e \in StoredEvent /\ IsProcessEvent(e) /\ Says(e)
  BY <1>1, <1>3, <1>4
<1>7. Known(w) \in SUBSET Processes
  BY <1>6 DEF Known, P, Entity, StoredEvent
<1>8. QED
  BY <1>4, <1>5, <1>6, <1>7, FS_Subset, InvestigationAssumption DEF P

\* What stands for a process in the graph is a process event of it.
LEMMA ByEntityIs ==
    ASSUME NEW w, Faithful(w), NEW y \in Known(w)
    PROVE  ByEntity(w, y) \in ToSet(ProcessEvents(w)) /\ Entity(ByEntity(w, y)) = y
<1> DEFINE all == ProcessEvents(w)
           mine == {i \in DOMAIN all : Entity(all[i]) = y}
           own == Picked(all, mine)
           first == {i \in DOMAIN own : own[i].event_type = "process_start"}
           begun == Picked(own, first)
<1>1. all \in Seq(StoredEvent)
  BY ProcessEventsAre
<1>2. mine \in SUBSET (DOMAIN all) /\ mine # {} /\ \A i \in mine : Entity(all[i]) = y
  <2>1. PICK e \in ToSet(all) : y = Entity(e)
    BY DEF Known
  <2>2. QED
    BY <2>1 DEF ToSet
<1>3. ByEntity(w, y) = IF begun = <<>> THEN own[1] ELSE begun[Len(begun)]
  BY DEF ByEntity
<1> HIDE DEF all, mine
<1>4. /\ own \in Seq(StoredEvent) /\ \A i \in mine : all[i] \in ToSet(own)
      /\ \A e \in ToSet(own) : \E i \in mine : e = all[i]
  BY <1>1, <1>2, PickedAll
<1> HIDE DEF own
<1>5. own # <<>>
  BY <1>2, <1>4 DEF ToSet
<1>6. first \in SUBSET (DOMAIN own)
  OBVIOUS
<1> HIDE DEF first
<1>7. begun \in Seq(StoredEvent) /\ \A e \in ToSet(begun) : \E i \in first : e = own[i]
  BY <1>4, <1>6, PickedAll
<1> HIDE DEF begun
<1>8. own[1] \in ToSet(own)
  BY <1>4, <1>5 DEF ToSet
<1>9. begun # <<>> => begun[Len(begun)] \in ToSet(begun)
  BY <1>7 DEF ToSet
<1>10. ByEntity(w, y) \in ToSet(own)
  BY <1>3, <1>6, <1>7, <1>8, <1>9 DEF ToSet
<1>11. PICK i \in mine : ByEntity(w, y) = all[i]
  BY <1>4, <1>10
<1>12. QED
  BY <1>2, <1>11 DEF ToSet, all

\* The ancestry that the graph shows: a chain through what is known, up to a
\* process whose event names no known parent.
LEMMA GraphPathIs ==
    ASSUME ParentsOK, NEW w, Faithful(w), NEW x \in Known(w)
    PROVE  LET p == GraphPath(w, x) IN
           /\ IsChain(p, x) /\ Len(p) \in Nat
           /\ \A i \in 1..Len(p) : p[i] \in Known(w)
           /\ \A i \in 2..Len(p) : p[i] = Parent(ByEntity(w, p[i - 1]))
           /\ Parent(ByEntity(w, p[Len(p)])) \notin Known(w)
<1> DEFINE p == GraphPath(w, x)
           known == Known(w)
           up == [y \in known |-> Parent(ByEntity(w, y))]
<1>1. known \in SUBSET Processes /\ IsFiniteSet(known) /\ Absent \notin known
  BY ProcessEventsAre
<1>2. p = Path(x, known, up)
  BY DEF GraphPath
<1>3. ASSUME NEW y \in known
      PROVE  up[y] = Parent(ByEntity(w, y)) /\ (up[y] \in known => up[y] = parentOf[y])
  <2>1. Says(ByEntity(w, y)) /\ Entity(ByEntity(w, y)) = y
    BY ByEntityIs, ProcessEventsAre
  <2>2. QED
    BY <1>1, <2>1 DEF Says
<1> HIDE DEF known, up, p
<1>4. IsPath(p, x, known, up) /\ up[p[Len(p)]] \notin known \ ToSet(p)
  BY <1>1, <1>2, PathEnds
<1>5. p \in Seq(known) /\ Len(p) \in Nat /\ Len(p) >= 1 /\ p[1] = x
  <2>1. known \cup {x} = known
    BY DEF known
  <2>2. QED
    BY <1>4, <2>1 DEF IsPath
<1>6. \A i \in 1..Len(p) : p[i] \in known
  BY <1>5
<1>7. ASSUME NEW i \in 2..Len(p)
      PROVE  p[i] = Parent(ByEntity(w, p[i - 1])) /\ p[i] = parentOf[p[i - 1]]
  <2>1. p[i] = up[p[i - 1]] /\ p[i] \in known /\ p[i - 1] \in known
    BY <1>4, <1>5 DEF IsPath
  <2>2. QED
    BY <1>3, <2>1
<1>8. IsChain(p, x)
  <2>1. p \in Seq(Processes)
    BY <1>1, <1>5
  <2>2. QED
    BY <1>5, <1>7, <2>1 DEF IsChain
<1>9. ASSUME up[p[Len(p)]] \in known PROVE FALSE
  <2> DEFINE last == p[Len(p)]
  <2>1. last \in known /\ last \in Processes /\ last \in Nat
    <3>1. last \in known
      BY <1>5
    <3> HIDE DEF last
    <3>2. QED
      BY <1>1, <3>1, InvestigationAssumption
  <2>2. up[last] = parentOf[last] /\ up[last] \in Processes /\ up[last] \in Nat
    BY <1>1, <1>3, <1>9, <2>1, InvestigationAssumption
  <2>3. up[last] < last
    BY <2>1, <2>2, InvestigationAssumption DEF ParentsOK
  <2>4. PICK i \in 1..Len(p) : p[i] = up[last]
    BY <1>4, <1>5, <1>9 DEF ToSet
  <2>5. i = Len(p) \/ last < p[i]
    BY <1>5, <1>8, ChainDescends
  <2>6. QED
    BY <2>1, <2>2, <2>3, <2>4, <2>5
<1>10. p[Len(p)] \in known
  BY <1>5
<1>11. QED
  BY <1>3, <1>5, <1>6, <1>7, <1>8, <1>9, <1>10 DEF p, known

-----------------------------------------------------------------------------
\* The visit of the descendants of x: what it has listed, whose children it has
\* pushed, which positions of the process events these had, and what is below x.
Seen(out) == {Entity(e) : e \in ToSet(out)}
Expanded(x, out) == {x} \cup Seen(out)
Pushed(w, names) == {i \in DOMAIN ProcessEvents(w) : Parent(ProcessEvents(w)[i]) \in names}
Below(w, x) ==
    {e \in ToSet(ProcessEvents(w)) :
        Parent(e) # Absent /\ x \in ToSet(TrueAncestors(Entity(e)))}

\* A step of the visit.
Advance(w, v) ==
    LET child == Head(v.stack)
    IN IF v.stack = <<>> THEN v
       ELSE IF \E e \in ToSet(v.out) : Entity(e) = Entity(child)
       THEN [v EXCEPT !.stack = Tail(@)]
       ELSE [stack |-> Children(w, Entity(child)) \o Tail(v.stack),
             out |-> Append(v.out, child)]

\* What is listed is below x and listed once; the children of what is listed are
\* listed too or wait; and every step takes one of those that were pushed.
VisitInv(w, x, v, n) ==
    /\ v.stack \in Seq(Below(w, x)) /\ v.out \in Seq(Below(w, x))
    /\ IsInjective(Entities(v.out))
    /\ \A e \in ToSet(ProcessEvents(w)) :
          Parent(e) \in Expanded(x, v.out) => e \in ToSet(v.stack) \/ Entity(e) \in Seen(v.out)
    /\ v.stack = <<>> \/ n + Len(v.stack) = Cardinality(Pushed(w, Expanded(x, v.out)))

\* A sequence is one of any set that has its members.
LEMMA SequenceIn ==
    ASSUME NEW S, NEW s \in Seq(S), NEW T, \A e \in ToSet(s) : e \in T
    PROVE  s \in Seq(T)
<1>1. s = [i \in 1..Len(s) |-> s[i]] /\ Len(s) \in Nat /\ \A i \in 1..Len(s) : s[i] \in T
  BY DEF ToSet
<1>2. QED
  BY <1>1

\* The children of x, and of what is below it, are below it.
LEMMA ChildrenAre ==
    ASSUME ParentsOK, NEW w, Faithful(w), NEW x \in Processes, NEW z \in Processes,
           z = x \/ x \in ToSet(TrueAncestors(z))
    PROVE  /\ Children(w, z) \in Seq(Below(w, x))
           /\ Len(Children(w, z)) = Cardinality(Pushed(w, {z}))
           /\ \A e \in ToSet(ProcessEvents(w)) : Parent(e) = z => e \in ToSet(Children(w, z))
<1> DEFINE all == ProcessEvents(w)
           at == {i \in DOMAIN all : Parent(all[i]) = z}
           c == Children(w, z)
<1>1. /\ all \in Seq(StoredEvent)
      /\ \A e \in ToSet(all) : e \in StoredEvent /\ Says(e)
  BY ProcessEventsAre
<1>2. c = Picked(all, at)
  BY DEF Children
<1>3. at \in SUBSET (DOMAIN all) /\ \A i \in DOMAIN all : i \in at <=> Parent(all[i]) = z
  OBVIOUS
<1>4. at = Pushed(w, {z})
  BY DEF Pushed
<1> HIDE DEF all, at, c
<1>5. /\ c \in Seq(StoredEvent) /\ Len(c) = Cardinality(at)
      /\ \A i \in at : all[i] \in ToSet(c)
      /\ \A e \in ToSet(c) : \E i \in at : e = all[i]
  BY <1>1, <1>2, <1>3, PickedAll
<1>6. ASSUME NEW e \in ToSet(c) PROVE e \in Below(w, x)
  <2>1. PICK i \in at : e = all[i]
    BY <1>5
  <2>2. e \in ToSet(all) /\ Parent(e) = z
    BY <1>3, <2>1 DEF ToSet
  <2>3. e \in StoredEvent /\ Says(e)
    BY <1>1, <2>2
  <2>4. z # Absent /\ Entity(e) \in Processes
    BY <2>3, InvestigationAssumption DEF StoredEvent, Entity
  <2>5. parentOf[Entity(e)] = z
    BY <2>2, <2>3, <2>4 DEF Says
  <2>6. {z} \cup ToSet(TrueAncestors(z)) \subseteq ToSet(TrueAncestors(Entity(e)))
    BY <2>4, <2>5, ParentIsAncestor
  <2>7. QED
    BY <2>2, <2>4, <2>6 DEF Below, all
<1>7. c \in Seq(Below(w, x))
  BY <1>5, <1>6, SequenceIn
<1>8. ASSUME NEW e \in ToSet(all), Parent(e) = z PROVE e \in ToSet(c)
  BY <1>3, <1>5, <1>8 DEF ToSet
<1>9. QED
  BY <1>4, <1>5, <1>7, <1>8 DEF c, all

\* No more is pushed than there is; ...
LEMMA PushedFits ==
    ASSUME NEW w, Faithful(w), NEW names
    PROVE  /\ IsFiniteSet(Pushed(w, names))
           /\ Cardinality(Pushed(w, names)) \in Nat
           /\ Cardinality(Pushed(w, names)) <= Len(w)
<1> DEFINE P == ProcessEvents(w)
           a == Pushed(w, names)
<1>1. P \in Seq(StoredEvent) /\ Len(P) \in Nat /\ Len(w) \in Nat /\ Len(P) <= Len(w)
  BY ProcessEventsAre
<1>2. a \in SUBSET (1..Len(P))
  BY <1>1 DEF Pushed
<1> HIDE DEF a, P
<1>3. IsFiniteSet(1..Len(P)) /\ Cardinality(1..Len(P)) = Len(P)
  <2>1. \A m \in Nat : IsFiniteSet(1..m) /\ Cardinality(1..m) = m
    BY FS_Interval
  <2>2. QED
    BY <1>1, <2>1
<1>4. IsFiniteSet(a) /\ Cardinality(a) <= Len(P)
  BY <1>2, <1>3, FS_Subset
<1>5. Cardinality(a) \in Nat
  BY <1>4, FS_CardinalityType
<1>6. QED
  BY <1>1, <1>4, <1>5 DEF a

\* ... what is pushed for another process comes on top.
LEMMA PushedAdds ==
    ASSUME NEW w, Faithful(w), NEW names, NEW z, z \notin names
    PROVE  Cardinality(Pushed(w, names \cup {z}))
              = Cardinality(Pushed(w, names)) + Cardinality(Pushed(w, {z}))
<1> DEFINE a == Pushed(w, names)
           b == Pushed(w, {z})
<1>1. a \cap b = {} /\ Pushed(w, names \cup {z}) = a \cup b
  BY DEF Pushed
<1>2. /\ IsFiniteSet(a) /\ Cardinality(a) \in Nat
      /\ IsFiniteSet(b) /\ Cardinality(b) \in Nat
  BY PushedFits
<1> HIDE DEF a, b
<1>3. Cardinality(a \cup b) = Cardinality(a) + Cardinality(b) - Cardinality(a \cap b)
  BY <1>2, FS_Union
<1>4. Cardinality(a \cap b) = 0
  BY <1>1, FS_EmptySet
<1>5. Cardinality(a \cup b) = Cardinality(a) + Cardinality(b)
  BY <1>2, <1>3, <1>4
<1>6. QED
  BY <1>1, <1>5 DEF a, b

\* The visit begins so, ...
LEMMA VisitStarts ==
    ASSUME ParentsOK, NEW w, Faithful(w), NEW x \in Processes
    PROVE  VisitInv(w, x, [stack |-> Children(w, x), out |-> <<>>], 0)
<1> DEFINE v == [stack |-> Children(w, x), out |-> <<>>]
<1>1. v.stack = Children(w, x) /\ v.out = <<>>
  OBVIOUS
<1> HIDE DEF v
<1>2. /\ v.stack \in Seq(Below(w, x)) /\ Len(v.stack) = Cardinality(Pushed(w, {x}))
      /\ \A e \in ToSet(ProcessEvents(w)) : Parent(e) = x => e \in ToSet(v.stack)
  BY <1>1, ChildrenAre
<1>3. v.out \in Seq(Below(w, x)) /\ DOMAIN v.out = {}
  BY <1>1
<1>4. Expanded(x, v.out) = {x} /\ IsInjective(Entities(v.out))
  BY <1>3 DEF Expanded, Seen, ToSet, IsInjective, Entities
<1>5. Len(v.stack) \in Nat
  BY <1>2
<1>6. VisitInv(w, x, v, 0)
  BY <1>2, <1>3, <1>4, <1>5 DEF VisitInv
<1>7. QED
  BY <1>6 DEF v

\* ... and stays so.
LEMMA VisitGoesOn ==
    ASSUME ParentsOK, NEW w, Faithful(w), NEW x \in Processes, NEW n \in Nat, NEW v,
           v \in [stack : Seq(Below(w, x)), out : Seq(Below(w, x))], VisitInv(w, x, v, n)
    PROVE  VisitInv(w, x, Advance(w, v), n + 1)
<1> DEFINE B == Below(w, x)
           P == ProcessEvents(w)
           child == Head(v.stack)
           z == Entity(child)
           u == Advance(w, v)
<1>1. /\ v.stack \in Seq(B) /\ v.out \in Seq(B) /\ IsInjective(Entities(v.out))
      /\ \A e \in ToSet(P) :
            Parent(e) \in Expanded(x, v.out) => e \in ToSet(v.stack) \/ Entity(e) \in Seen(v.out)
      /\ v.stack = <<>> \/ n + Len(v.stack) = Cardinality(Pushed(w, Expanded(x, v.out)))
  BY DEF VisitInv
<1>2. \A e \in B : /\ e \in ToSet(P) /\ Entity(e) \in Processes
                   /\ x \in ToSet(TrueAncestors(Entity(e)))
  <2>1. \A e \in B : e \in ToSet(P) /\ x \in ToSet(TrueAncestors(Entity(e)))
    BY DEF Below
  <2>2. \A e \in ToSet(P) : e \in StoredEvent
    BY ProcessEventsAre
  <2>3. \A e \in StoredEvent : Entity(e) \in Processes
    BY DEF StoredEvent, Entity
  <2>4. QED
    BY <2>1, <2>2, <2>3
<1> HIDE DEF B, P
<1>3. CASE v.stack = <<>>
  <2>1. u = v
    BY <1>3 DEF Advance
  <2>2. QED
    BY <1>1, <1>3, <2>1 DEF VisitInv, B, P
<1>4. ASSUME v.stack # <<>>
      PROVE  /\ child \in B /\ Tail(v.stack) \in Seq(B) /\ Len(Tail(v.stack)) = Len(v.stack) - 1
             /\ \A e \in ToSet(v.stack) : e = child \/ e \in ToSet(Tail(v.stack))
             /\ Len(v.stack) \in Nat
  <2> DEFINE s == v.stack
  <2>1. s \in Seq(B) /\ s # <<>>
    BY <1>1, <1>4
  <2> HIDE DEF s
  <2>2. Head(s) \in B /\ Tail(s) \in Seq(B) /\ Len(Tail(s)) = Len(s) - 1 /\ Len(s) \in Nat
        /\ Len(s) >= 1 /\ Head(s) = s[1] /\ \A i \in 1..(Len(s) - 1) : Tail(s)[i] = s[i + 1]
    BY <2>1
  <2>3. ASSUME NEW i \in DOMAIN s PROVE s[i] = Head(s) \/ s[i] \in ToSet(Tail(s))
    <3>1. i = 1 \/ (i - 1 \in 1..(Len(s) - 1) /\ i - 1 + 1 = i)
      BY <2>1
    <3>2. CASE i - 1 \in 1..(Len(s) - 1) /\ i - 1 + 1 = i
      <4>1. Tail(s)[i - 1] = s[i] /\ i - 1 \in DOMAIN Tail(s)
        BY <2>2, <3>2
      <4>2. QED
        BY <4>1 DEF ToSet
    <3>3. QED
      BY <2>2, <3>1, <3>2
  <2>4. QED
    BY <2>2, <2>3 DEF s, ToSet
<1>5. CASE v.stack # <<>> /\ z \in Seen(v.out)
  <2>1. \E e \in ToSet(v.out) : Entity(e) = z
    BY <1>5 DEF Seen
  <2>2. u.stack = Tail(v.stack) /\ u.out = v.out
    BY <1>5, <2>1 DEF Advance
  <2> HIDE DEF u, child
  <2>3. ASSUME NEW e \in ToSet(P), Parent(e) \in Expanded(x, u.out)
        PROVE  e \in ToSet(u.stack) \/ Entity(e) \in Seen(u.out)
    BY <1>1, <1>4, <1>5, <2>2, <2>3
  <2>4. n + 1 + Len(u.stack) = Cardinality(Pushed(w, Expanded(x, u.out)))
    BY <1>1, <1>4, <1>5, <2>2
  <2>5. VisitInv(w, x, u, n + 1)
    BY <1>1, <1>4, <1>5, <2>2, <2>3, <2>4 DEF VisitInv, B, P
  <2>6. QED
    BY <2>5 DEF u
<1>6. CASE v.stack # <<>> /\ z \notin Seen(v.out)
  <2>1. ~\E e \in ToSet(v.out) : Entity(e) = z
    BY <1>6 DEF Seen
  <2>2. u.stack = Children(w, z) \o Tail(v.stack) /\ u.out = Append(v.out, child)
    BY <1>6, <2>1 DEF Advance
  <2>3. child \in B /\ z \in Processes /\ x \in ToSet(TrueAncestors(z))
    BY <1>2, <1>4, <1>6
  <2>4. z # x
    <3>1. x < z
      BY <2>3, AncestorsAreOlder
    <3>2. x \in Nat
      BY InvestigationAssumption
    <3>3. QED
      BY <3>1, <3>2
  <2>5. /\ Children(w, z) \in Seq(B) /\ Len(Children(w, z)) = Cardinality(Pushed(w, {z}))
        /\ \A e \in ToSet(P) : Parent(e) = z => e \in ToSet(Children(w, z))
    BY <2>3, ChildrenAre DEF B, P
  <2> DEFINE c == Children(w, z)
             t == Tail(v.stack)
             o == v.out
  <2>6. /\ t \in Seq(B) /\ Len(t) = Len(v.stack) - 1 /\ Len(v.stack) \in Nat
        /\ \A e \in ToSet(v.stack) : e = child \/ e \in ToSet(t)
    BY <1>4, <1>6
  <2>7. o \in Seq(B) /\ c \in Seq(B) /\ \A i \in DOMAIN o : Entity(o[i]) # z
    BY <1>1, <2>1, <2>5 DEF ToSet
  <2> HIDE DEF u, child, c, t
  <2>8. /\ c \o t \in Seq(B) /\ Len(c \o t) = Len(c) + Len(t) /\ Len(c) \in Nat /\ Len(t) \in Nat
        /\ ToSet(c) \cup ToSet(t) \subseteq ToSet(c \o t)
    <3>1. /\ c \o t \in Seq(B) /\ Len(c \o t) = Len(c) + Len(t) /\ Len(c) \in Nat /\ Len(t) \in Nat
          /\ \A i \in DOMAIN c : i \in DOMAIN (c \o t) /\ (c \o t)[i] = c[i]
          /\ \A i \in DOMAIN t : Len(c) + i \in DOMAIN (c \o t) /\ (c \o t)[Len(c) + i] = t[i]
      <4>1. c \in Seq(B) /\ t \in Seq(B)
        BY <2>6, <2>7
      <4>2. DOMAIN c = 1..Len(c) /\ DOMAIN t = 1..Len(t) /\ Len(c) \in Nat /\ Len(t) \in Nat
        BY <4>1
      <4>3. c \o t \in Seq(B) /\ Len(c \o t) = Len(c) + Len(t)
        BY <4>1
      <4>4. DOMAIN (c \o t) = 1..(Len(c) + Len(t))
        BY <4>2, <4>3
      <4>5. \A i \in 1..Len(c) : (c \o t)[i] = c[i]
        BY <4>1
      <4>6. ASSUME NEW i \in 1..Len(t) PROVE (c \o t)[Len(c) + i] = t[i]
        BY <4>1, <4>2
      <4>7. QED
        BY <4>2, <4>3, <4>4, <4>5, <4>6
    <3> DEFINE a == c \o t
    <3> HIDE DEF a
    <3>2. \A i \in DOMAIN c : c[i] \in ToSet(a)
      BY <3>1 DEF ToSet, a
    <3>3. \A i \in DOMAIN t : t[i] \in ToSet(a)
      <4>1. ASSUME NEW i \in DOMAIN t PROVE t[i] \in ToSet(a)
        <5>1. Len(c) + i \in DOMAIN a /\ a[Len(c) + i] = t[i]
          BY <3>1 DEF a
        <5>2. QED
          BY <5>1 DEF ToSet
      <4>2. QED
        BY <4>1
    <3>4. QED
      BY <3>1, <3>2, <3>3 DEF ToSet, a
  <2>9. /\ u.out \in Seq(B) /\ DOMAIN u.out = 1..(Len(o) + 1) /\ u.out[Len(o) + 1] = child
        /\ DOMAIN o = 1..Len(o) /\ Len(o) \in Nat /\ \A i \in DOMAIN o : u.out[i] = o[i]
    BY <2>2, <2>3, <2>7
  <2>10. \A i \in DOMAIN u.out : i \in DOMAIN o \/ i = Len(o) + 1
    BY <2>9
  <2>11. Seen(u.out) = Seen(o) \cup {z}
    <3>1. \A i \in DOMAIN u.out : u.out[i] \in ToSet(o) \/ u.out[i] = child
      BY <2>9, <2>10 DEF ToSet
    <3>2. \A i \in DOMAIN o : o[i] \in ToSet(u.out)
      BY <2>9 DEF ToSet
    <3>3. child \in ToSet(u.out)
      BY <2>9 DEF ToSet
    <3>4. ToSet(u.out) = ToSet(o) \cup {child}
      BY <3>1, <3>2, <3>3 DEF ToSet
    <3>5. QED
      BY <3>4 DEF Seen
  <2>12. IsInjective(Entities(u.out))
    <3>1. ASSUME NEW i \in DOMAIN u.out, NEW j \in DOMAIN u.out,
                 Entity(u.out[i]) = Entity(u.out[j])
          PROVE  i = j
      <4>1. CASE i \in DOMAIN o /\ j \in DOMAIN o
        BY <1>1, <2>9, <3>1, <4>1 DEF IsInjective, Entities
      <4>2. CASE i \in DOMAIN o /\ j = Len(o) + 1
        BY <2>7, <2>9, <3>1, <4>2
      <4>3. CASE i = Len(o) + 1 /\ j \in DOMAIN o
        BY <2>7, <2>9, <3>1, <4>3
      <4>4. QED
        BY <2>10, <4>1, <4>2, <4>3
    <3>2. QED
      BY <3>1 DEF IsInjective, Entities
  <2>13. ASSUME NEW e \in ToSet(P), Parent(e) \in Expanded(x, u.out)
         PROVE  e \in ToSet(u.stack) \/ Entity(e) \in Seen(u.out)
    <3>1. Parent(e) = z \/ Parent(e) \in Expanded(x, o)
      BY <2>11, <2>13 DEF Expanded
    <3>2. CASE Parent(e) = z
      BY <2>2, <2>5, <2>8, <3>2 DEF c, t
    <3>3. CASE Parent(e) \in Expanded(x, o)
      <4>1. e \in ToSet(v.stack) \/ Entity(e) \in Seen(o)
        BY <1>1, <3>3
      <4>2. CASE e = child
        BY <2>11, <4>2
      <4>3. QED
        BY <2>2, <2>6, <2>8, <2>11, <4>1, <4>2 DEF c, t
    <3>4. QED
      BY <3>1, <3>2, <3>3
  <2>14. n + 1 + Len(u.stack) = Cardinality(Pushed(w, Expanded(x, u.out)))
    <3>1. Expanded(x, u.out) = Expanded(x, o) \cup {z} /\ z \notin Expanded(x, o)
      BY <1>6, <2>4, <2>11 DEF Expanded
    <3>2. Cardinality(Pushed(w, Expanded(x, u.out)))
             = Cardinality(Pushed(w, Expanded(x, o))) + Cardinality(Pushed(w, {z}))
      BY <3>1, PushedAdds
    <3>3. Len(u.stack) = Len(c) + (Len(v.stack) - 1)
      BY <2>2, <2>6, <2>8 DEF c, t
    <3>4. n + Len(v.stack) = Cardinality(Pushed(w, Expanded(x, o)))
      BY <1>1, <1>6
    <3>5. Len(c) = Cardinality(Pushed(w, {z}))
      BY <2>5 DEF c
    <3>6. QED
      BY <2>6, <2>8, <3>2, <3>3, <3>4, <3>5
  <2>15. u.stack \in Seq(B)
    BY <2>2, <2>8 DEF c, t
  <2>16. VisitInv(w, x, u, n + 1)
    BY <2>9, <2>12, <2>13, <2>14, <2>15 DEF VisitInv, B, P
  <2>17. QED
    BY <2>16 DEF u
<1>7. QED
  BY <1>3, <1>5, <1>6

-----------------------------------------------------------------------------
\* The visit ends, with all that is below x and known to be.
LEMMA VisitEnds ==
    ASSUME ParentsOK, NEW w, Faithful(w), NEW x \in Processes
    PROVE  LET out == Descendants(w, x) IN
           /\ out \in Seq(Below(w, x)) /\ IsInjective(Entities(out))
           /\ \A e \in ToSet(ProcessEvents(w)) :
                 Parent(e) \in Expanded(x, out) => Entity(e) \in Seen(out)
<1> DEFINE l == 2 * Len(w)
           S == [stack : Seq(Below(w, x)), out : Seq(Below(w, x))]
           base == [stack |-> Children(w, x), out |-> <<>>]
           Def(f) == [n \in 0..l |-> IF n = 0 THEN base ELSE Advance(w, f[n - 1])]
           visit == CHOOSE f : f = Def(f)
<1>1. Len(w) \in Nat /\ l \in Nat
  BY ProcessEventsAre
<1>2. Descendants(w, x) = visit[l].out
  BY DEF Descendants, Advance
<1>3. VisitInv(w, x, base, 0)
  BY VisitStarts
<1> HIDE DEF base, l
<1> DEFINE Visits(g, m) == /\ g = [n \in 0..m |-> g[n]] /\ g[0] = base
                           /\ \A n \in 1..m : g[n] = Advance(w, g[n - 1])
<1>4. \E g : Visits(g, l)
  <2> DEFINE N == {m \in 0..l : \E g : Visits(g, m)}
  <2>1. 0 \in N
    <3> DEFINE g == [n \in 0..0 |-> base]
    <3>1. Visits(g, 0) /\ 0 \in 0..l
      BY <1>1
    <3> HIDE DEF Visits
    <3>2. QED
      BY <3>1
  <2>2. ASSUME NEW m \in 1..l, m - 1 \in N PROVE m \in N
    <3>1. PICK g : Visits(g, m - 1)
      BY <2>2
    <3> DEFINE new == Advance(w, g[m - 1])
               h == [n \in 0..m |-> IF n = m THEN new ELSE g[n]]
    <3> HIDE DEF new
    <3>2. /\ m \in 0..m /\ h[m] = new /\ 0 \in 0..m /\ 0 # m
          /\ \A n \in 0..m : n # m => n \in 0..(m - 1) /\ h[n] = g[n]
      OBVIOUS
    <3>3. h = [n \in 0..m |-> h[n]]
      OBVIOUS
    <3> HIDE DEF h
    <3>4. h[0] = base
      BY <3>1, <3>2
    <3>5. ASSUME NEW n \in 1..m PROVE h[n] = Advance(w, h[n - 1])
      <4>1. n \in 0..m /\ n - 1 \in 0..m /\ n - 1 # m /\ h[n - 1] = g[n - 1]
        BY <3>2
      <4>2. CASE n = m
        BY <3>2, <4>1, <4>2 DEF new
      <4>3. CASE n # m
        <5>1. n \in 1..(m - 1) /\ h[n] = g[n]
          BY <3>2, <4>1, <4>3
        <5>2. QED
          BY <3>1, <4>1, <5>1
      <4>4. QED
        BY <4>2, <4>3
    <3>6. Visits(h, m)
      BY <3>3, <3>4, <3>5
    <3> HIDE DEF Visits
    <3>7. QED
      BY <3>6
  <2> HIDE DEF N
  <2>3. l \in N
    <3>1. 0..l \subseteq N
      BY <1>1, <2>1, <2>2, UpTo
    <3>2. QED
      BY <1>1, <3>1
  <2>4. QED
    BY <2>3 DEF N
<1>5. PICK g : Visits(g, l)
  BY <1>4
<1>6. g = Def(g)
  <2>1. ASSUME NEW n \in 0..l PROVE g[n] = Def(g)[n]
    <3>1. n = 0 \/ n \in 1..l
      BY <1>1
    <3>2. QED
      BY <1>5, <3>1
  <2>2. g = [n \in 0..l |-> g[n]] /\ Def(g) = [n \in 0..l |-> Def(g)[n]]
    BY <1>5
  <2> HIDE DEF Def
  <2>3. QED
    BY <2>1, <2>2
<1>7. visit = Def(visit)
  <2> HIDE DEF Def
  <2>1. QED
    BY <1>6
<1> HIDE DEF visit
<1>8. visit[0] = base /\ \A n \in 1..l : visit[n] = Advance(w, visit[n - 1])
  <2>1. visit[0] = base
    BY <1>1, <1>7
  <2>2. ASSUME NEW n \in 1..l PROVE visit[n] = Advance(w, visit[n - 1])
    <3>1. n \in 0..l /\ n # 0
      BY <1>1
    <3>2. QED
      BY <1>7, <3>1
  <2>3. QED
    BY <2>1, <2>2
<1> DEFINE OK(n) == visit[n] \in S /\ VisitInv(w, x, visit[n], n)
           N == {n \in 0..l : OK(n)}
<1>9. 0 \in N
  <2>1. base \in S
    BY <1>3 DEF VisitInv, base
  <2>2. QED
    BY <1>1, <1>3, <1>8, <2>1
<1>10. ASSUME NEW n \in 1..l, n - 1 \in N PROVE n \in N
  <2> DEFINE v == visit[n - 1]
             u == Advance(w, v)
  <2>1. v \in S /\ VisitInv(w, x, v, n - 1) /\ n - 1 \in Nat /\ n - 1 + 1 = n /\ n \in 0..l
    BY <1>1, <1>10
  <2>2. visit[n] = u
    BY <1>8
  <2> HIDE DEF v
  <2>3. VisitInv(w, x, u, n)
    BY <2>1, VisitGoesOn
  <2>4. u \in S
    <3>1. u.stack \in Seq(Below(w, x)) /\ u.out \in Seq(Below(w, x))
      BY <2>3 DEF VisitInv
    <3>2. u = v \/ u = [v EXCEPT !.stack = u.stack] \/ u = [stack |-> u.stack, out |-> u.out]
      BY <2>1 DEF Advance
    <3> HIDE DEF u
    <3>3. QED
      BY <2>1, <3>1, <3>2
  <2>5. QED
    BY <2>1, <2>2, <2>3, <2>4
<1> HIDE DEF N
<1>11. 0..l \subseteq N
  BY <1>1, <1>9, <1>10, UpTo
<1>12. OK(l)
  <2> HIDE DEF OK
  <2>1. l \in N
    BY <1>1, <1>11
  <2>2. QED
    BY <2>1 DEF N
<1> DEFINE v == visit[l]
<1>13. VisitInv(w, x, v, l)
  BY <1>12
<1> HIDE DEF v
<1>14. v.stack = <<>>
  <2> DEFINE names == Expanded(x, v.out)
  <2>1. Cardinality(Pushed(w, names)) \in Nat /\ Cardinality(Pushed(w, names)) <= Len(w)
    BY PushedFits
  <2>2. v.stack = <<>> \/ l + Len(v.stack) = Cardinality(Pushed(w, names))
    BY <1>13 DEF VisitInv
  <2>3. v.stack \in Seq(Below(w, x))
    BY <1>13 DEF VisitInv
  <2>4. Len(v.stack) \in Nat /\ (v.stack # <<>> => Len(v.stack) >= 1)
    <3> DEFINE s == v.stack
    <3>1. s \in Seq(Below(w, x))
      BY <2>3
    <3> HIDE DEF s
    <3>2. Len(s) \in Nat /\ (s # <<>> => Len(s) >= 1)
      BY <3>1
    <3>3. QED
      BY <3>2 DEF s
  <2> HIDE DEF names
  <2>5. ASSUME v.stack # <<>> PROVE FALSE
    <3> DEFINE pushed == Cardinality(Pushed(w, names))
               waiting == Len(v.stack)
    <3>1. /\ pushed \in Nat /\ pushed <= Len(w) /\ waiting \in Nat /\ waiting >= 1
          /\ l + waiting = pushed /\ Len(w) \in Nat /\ l = 2 * Len(w)
      BY <1>1, <2>1, <2>2, <2>4, <2>5 DEF l
    <3> HIDE DEF pushed, waiting
    <3>2. QED
      BY <3>1
  <2>6. QED
    BY <2>5
<1>15. ToSet(v.stack) = {}
  BY <1>14 DEF ToSet
<1>16. QED
  BY <1>2, <1>13, <1>15 DEF VisitInv, v

-----------------------------------------------------------------------------
\* The ancestry and the descendants of the graph are true, and agree.
LEMMA GraphShowsTruth ==
    ASSUME ParentsOK, NEW w, Faithful(w), NEW x \in Known(w)
    PROVE  LET below == Entities(Descendants(w, x)) IN
           /\ IsPrefix(Ancestors(w, x), TrueAncestors(x))
           /\ IsInjective(below)
           /\ \A y \in ToSet(below) : x \in ToSet(TrueAncestors(y))
           /\ \A e \in ToSet(Timeline(w, x)) :
                 x \in {Entity(e)} \cup ToSet(TrueAncestors(Entity(e)))
           /\ \A y \in ToSet(Ancestors(w, x)) : x \in ToSet(Entities(Descendants(w, y)))
<1> DEFINE out == Descendants(w, x)
           p == GraphPath(w, x)
<1>1. x \in Processes
  BY ProcessEventsAre
<1>2. /\ IsChain(p, x) /\ Len(p) \in Nat
      /\ \A i \in 1..Len(p) : p[i] \in Known(w)
      /\ \A i \in 2..Len(p) : p[i] = Parent(ByEntity(w, p[i - 1]))
  BY GraphPathIs
<1>3. IsPrefix(Ancestors(w, x), TrueAncestors(x))
  BY <1>1, <1>2, ShownIsPrefix DEF Ancestors
<1>4. out \in Seq(Below(w, x)) /\ IsInjective(Entities(out))
  BY <1>1, VisitEnds
<1>5. \A y \in Seen(out) : x \in ToSet(TrueAncestors(y))
  <2> HIDE DEF out
  <2>1. \A e \in ToSet(out) : e \in Below(w, x)
    BY <1>4 DEF ToSet
  <2>2. QED
    BY <2>1 DEF Seen, Below
<1>6. \A o : ToSet(Entities(o)) = Seen(o)
  BY DEF ToSet, Entities, Seen
<1>7. ASSUME NEW e \in ToSet(Timeline(w, x))
      PROVE  x \in {Entity(e)} \cup ToSet(TrueAncestors(Entity(e)))
  <2> DEFINE names == {x} \cup Seen(out)
             at == {i \in DOMAIN w : Entity(w[i]) \in names \/ Parent(w[i]) \in names}
  <2>1. Timeline(w, x) = Picked(w, at)
    BY DEF Timeline, Seen
  <2>2. w \in Seq(StoredEvent) /\ at \in SUBSET (DOMAIN w)
    BY DEF Faithful
  <2>3. PICK i \in at : e = w[i]
    <3> HIDE DEF at
    <3>1. QED
      BY <1>7, <2>1, <2>2, PickedAll
  <2>4. e \in StoredEvent /\ Says(e) /\ (Entity(e) \in names \/ Parent(e) \in names)
    BY <2>2, <2>3 DEF Faithful, ToSet
  <2>5. \A y \in names : y = x \/ x \in ToSet(TrueAncestors(y))
    BY <1>5
  <2> HIDE DEF names
  <2>6. CASE Entity(e) \in names
    BY <2>5, <2>6
  <2>7. CASE Parent(e) \in names /\ Parent(e) # Absent
    <3>1. Entity(e) \in Processes /\ Parent(e) \in Processes
      BY <2>4, <2>7 DEF StoredEvent, Entity, Parent
    <3>2. parentOf[Entity(e)] = Parent(e)
      BY <2>4, <2>7 DEF Says
    <3>3. {Parent(e)} \cup ToSet(TrueAncestors(Parent(e))) \subseteq ToSet(TrueAncestors(Entity(e)))
      BY <3>1, <3>2, ParentIsAncestor
    <3>4. QED
      BY <2>5, <2>7, <3>3
  <2>8. Absent \notin names
    <3>1. \A y \in Seen(out) : y \in Processes
      <4> HIDE DEF out
      <4>1. \A f \in ToSet(out) : f \in ToSet(ProcessEvents(w))
        BY <1>4 DEF ToSet, Below
      <4>2. \A f \in ToSet(ProcessEvents(w)) : Entity(f) \in Processes
        BY ProcessEventsAre DEF StoredEvent, Entity
      <4>3. QED
        BY <4>1, <4>2 DEF Seen
    <3>2. QED
      BY <1>1, <3>1, InvestigationAssumption DEF names
  <2>9. QED
    BY <2>4, <2>6, <2>7, <2>8
<1>8. ASSUME NEW y \in ToSet(Ancestors(w, x)) PROVE x \in Seen(Descendants(w, y))
  <2> DEFINE below == Seen(Descendants(w, y))
  <2>1. p \in Seq(Known(w)) /\ Len(p) >= 1 /\ p[1] = x
    <3>1. p \in Seq(Processes) /\ Len(p) >= 1 /\ p[1] = x
      BY <1>2 DEF IsChain
    <3> HIDE DEF p
    <3>2. QED
      BY <1>2, <3>1 DEF ToSet
  <2>2. PICK k \in 2..Len(p) : y = p[k]
    <3>1. y \in ToSet(Tail(p))
      BY <1>8 DEF Ancestors
    <3> HIDE DEF p
    <3>2. p \in Seq(Known(w)) /\ Len(p) \in Nat /\ Len(p) >= 1
      BY <1>2, <2>1
    <3>3. QED
      BY <3>1, <3>2 DEF ToSet
  <2> HIDE DEF p
  <2>3. y \in Processes
    BY <1>2, <2>2, ProcessEventsAre
  <2>4. \A e \in ToSet(ProcessEvents(w)) : Parent(e) \in {y} \cup below => Entity(e) \in below
    BY <2>3, VisitEnds DEF Expanded
  <2> HIDE DEF below
  <2>5. ASSUME NEW i \in 2..Len(p), p[i] \in {y} \cup below PROVE p[i - 1] \in below
    <3> DEFINE e == ByEntity(w, p[i - 1])
    <3>1. i - 1 \in 1..Len(p) /\ p[i - 1] \in Known(w)
      BY <1>2
    <3>2. e \in ToSet(ProcessEvents(w)) /\ Entity(e) = p[i - 1] /\ Parent(e) = p[i]
      BY <1>2, <3>1, ByEntityIs
    <3>3. QED
      BY <2>4, <2>5, <3>2
  <2> DEFINE l == k - 2
             N == {m \in 0..l : p[k - 1 - m] \in below}
  <2>6. l \in Nat /\ k \in 2..Len(p)
    OBVIOUS
  <2>7. 0 \in N
    <3>1. k - 1 - 0 = k - 1 /\ 0 \in 0..l
      BY <2>6
    <3>2. QED
      BY <2>2, <2>5, <3>1
  <2>8. ASSUME NEW m \in 1..l, m - 1 \in N PROVE m \in N
    <3>1. k - 1 - (m - 1) = k - m /\ k - m \in 2..Len(p) /\ k - m - 1 = k - 1 - m /\ m \in 0..l
      BY <1>2, <2>6
    <3>2. p[k - m] \in below
      BY <2>8, <3>1
    <3>3. p[k - m - 1] \in below
      BY <2>5, <3>1, <3>2
    <3>4. QED
      BY <3>1, <3>3
  <2> HIDE DEF N
  <2>9. l \in N
    <3> HIDE DEF l
    <3>1. 0..l \subseteq N
      BY <2>6, <2>7, <2>8, UpTo
    <3>2. QED
      BY <2>6, <3>1
  <2>10. k - 1 - l = 1
    BY <2>6
  <2>11. QED
    BY <2>1, <2>9, <2>10 DEF N, below
<1>9. QED
  BY <1>3, <1>4, <1>5, <1>6, <1>7, <1>8

-----------------------------------------------------------------------------
\* The gaps of the graph are where its ancestry stops.
LEMMA GraphExplainsItself ==
    ASSUME ParentsOK, NEW w, Faithful(w), NEW x \in Known(w)
    PROVE  LET stop == Last(GraphPath(w, x)) IN
           /\ Gaps(w, x) \subseteq {stop}
           /\ \/ Ancestors(w, x) = TrueAncestors(x)
              \/ stop \in Gaps(w, x)
              \/ Parent(ByEntity(w, stop)) \in Processes \ Known(w)
<1> DEFINE p == GraphPath(w, x)
           stop == p[Len(p)]
           out == Descendants(w, x)
<1>1. x \in Processes /\ Known(w) \in SUBSET Processes /\ Absent \notin Known(w)
  BY ProcessEventsAre
<1>2. /\ IsChain(p, x) /\ Len(p) \in Nat
      /\ \A i \in 1..Len(p) : p[i] \in Known(w)
      /\ \A i \in 2..Len(p) : p[i] = Parent(ByEntity(w, p[i - 1]))
      /\ Parent(ByEntity(w, stop)) \notin Known(w)
  BY GraphPathIs
<1>3. p \in Seq(Processes) /\ Len(p) >= 1 /\ ToSet(p) = {p[i] : i \in 1..Len(p)}
  BY <1>2 DEF IsChain, ToSet
<1>4. parentOf[stop] = Absent => Ancestors(w, x) = TrueAncestors(x)
  BY <1>1, <1>2, ShownIsPrefix DEF Ancestors
<1>5. out \in Seq(Below(w, x))
  BY <1>1, VisitEnds
<1>6. \A e : e \in Gaps(w, x) <=> \E f : /\ e = Entity(f) /\ HasGap(w, f)
                                         /\ \/ \E y \in ToSet(p) : f = ByEntity(w, y)
                                            \/ f \in ToSet(out)
  BY DEF Gaps
<1>7. Last(p) = stop
  BY DEF Last
<1> HIDE DEF p, out
<1>8. ASSUME NEW f \in ToSet(out) PROVE ~HasGap(w, f)
  <2>1. f \in ToSet(ProcessEvents(w)) /\ Parent(f) # Absent
    <3>1. f \in Below(w, x)
      BY <1>5 DEF ToSet
    <3>2. QED
      BY <3>1 DEF Below
  <2>2. f.missing_parent => Parent(f) = Absent
    BY <2>1, ProcessEventsAre DEF Says
  <2>3. QED
    BY <2>1, <2>2 DEF HasGap
<1>9. ASSUME NEW i \in 1..Len(p), HasGap(w, ByEntity(w, p[i])) PROVE i = Len(p)
  <2>1. CASE i # Len(p)
    <3>1. i + 1 \in 2..Len(p) /\ i + 1 - 1 = i /\ i + 1 \in 1..Len(p)
      BY <1>2, <2>1
    <3>2. p[i + 1] = Parent(ByEntity(w, p[i])) /\ p[i + 1] \in Known(w)
      BY <1>2, <3>1
    <3>3. QED
      BY <1>9, <3>2 DEF HasGap
  <2>2. QED
    BY <2>1
<1>10. Gaps(w, x) \subseteq {stop}
  <2>1. ASSUME NEW e \in Gaps(w, x) PROVE e = stop
    <3>1. PICK f : /\ e = Entity(f) /\ HasGap(w, f)
                   /\ (\E y \in ToSet(p) : f = ByEntity(w, y)) \/ f \in ToSet(out)
      BY <1>6
    <3>2. PICK i \in 1..Len(p) : f = ByEntity(w, p[i])
      BY <1>3, <1>8, <3>1
    <3>3. i = Len(p)
      BY <1>9, <3>1, <3>2
    <3>4. QED
      BY <1>2, <3>1, <3>2, <3>3, ByEntityIs
  <2>2. QED
    BY <2>1
<1>11. ASSUME parentOf[stop] # Absent
       PROVE  stop \in Gaps(w, x) \/ Parent(ByEntity(w, stop)) \in Processes \ Known(w)
  <2> DEFINE e == ByEntity(w, stop)
  <2>1. stop \in Known(w) /\ stop \in ToSet(p)
    BY <1>2, <1>3
  <2>2. Entity(e) = stop /\ IsProcessEvent(e) /\ Says(e)
    BY <2>1, ByEntityIs, ProcessEventsAre
  <2>3. parentOf[stop] \in Processes
    BY <1>1, <1>11, <2>1 DEF ParentsOK
  <2>4. CASE Parent(e) = Absent
    <3>1. e.missing_parent
      BY <1>11, <2>2, <2>4 DEF Says
    <3>2. HasGap(w, e)
      BY <1>1, <2>4, <3>1 DEF HasGap
    <3>3. QED
      BY <1>6, <2>1, <2>2, <3>2
  <2>5. CASE Parent(e) = parentOf[stop]
    BY <1>2, <2>3, <2>5
  <2>6. QED
    BY <2>2, <2>4, <2>5 DEF Says
<1>12. QED
  BY <1>4, <1>7, <1>10, <1>11 DEF p

-----------------------------------------------------------------------------
\* The chain by identity or process id: events of the window, each the oldest of
\* the one that the event before it names as its parent.
LEMMA ChainOfIs ==
    ASSUME NEW w \in Seq(StoredEvent), NEW own, NEW parent,
           NEW id, id # Absent, \E e \in ToSet(w) : e[own] = id
    PROVE  LET c == ChainOf(w, id, own, parent) IN
           /\ Len(c) \in Nat /\ Len(c) >= 1 /\ DOMAIN c = 1..Len(c)
           /\ \A i \in 1..Len(c) : c[i] \in ToSet(w) /\ c[i][own] # Absent
           /\ c[1][own] = id
           /\ \A i \in 2..Len(c) : c[i][own] = c[i - 1][parent]
<1> DEFINE known == {e[own] : e \in ToSet(w)} \ {Absent}
           at(y) == {i \in DOMAIN w : w[i][own] = y}
           oldest(y) == Picked(w, at(y))[1]
           up == [y \in known |-> oldest(y)[parent]]
           path == Path(id, known, up)
           c == ChainOf(w, id, own, parent)
<1>1. id \in known /\ c = [i \in DOMAIN path |-> oldest(path[i])]
  BY DEF ChainOf
<1>2. IsFiniteSet(known)
  <2> DEFINE f == [i \in DOMAIN w |-> w[i][own]]
             T == {e[own] : e \in ToSet(w)}
  <2>1. f \in Surjection(DOMAIN w, T)
    BY DEF Surjection, ToSet
  <2>2. IsFiniteSet(DOMAIN w)
    <3>1. DOMAIN w = 1..Len(w) /\ Len(w) \in Nat
      OBVIOUS
    <3>2. QED
      BY <3>1, FS_Interval
  <2> HIDE DEF f
  <2>3. IsFiniteSet(T)
    <3> HIDE DEF T
    <3>1. QED
      BY <2>1, <2>2, FS_Surjection
  <2>4. QED
    BY <2>3, FS_Subset
<1>3. ASSUME NEW y \in known PROVE oldest(y) \in ToSet(w) /\ oldest(y)[own] = y
  <2> DEFINE q == Picked(w, at(y))
  <2>1. at(y) \in SUBSET (DOMAIN w) /\ at(y) # {} /\ \A i \in at(y) : w[i][own] = y
    BY DEF ToSet
  <2> HIDE DEF at
  <2>2. /\ q \in Seq(StoredEvent) /\ \A i \in at(y) : w[i] \in ToSet(q)
        /\ \A e \in ToSet(q) : \E i \in at(y) : e = w[i]
    BY <2>1, PickedAll
  <2> HIDE DEF q
  <2>3. q[1] \in ToSet(q)
    BY <2>1, <2>2 DEF ToSet
  <2>4. PICK i \in at(y) : q[1] = w[i]
    BY <2>2, <2>3
  <2>5. QED
    BY <2>1, <2>4 DEF q, ToSet
<1>4. \A y \in known : up[y] = oldest(y)[parent]
  OBVIOUS
<1>5. Absent \notin known
  OBVIOUS
<1> HIDE DEF known, oldest, up
<1>6. IsPath(path, id, known, up)
  BY <1>2, PathEnds
<1> HIDE DEF path
<1>7. path \in Seq(known) /\ Len(path) \in Nat /\ Len(path) >= 1 /\ path[1] = id
  <2>1. known \cup {id} = known
    BY <1>1
  <2>2. QED
    BY <1>6, <2>1 DEF IsPath
<1>8. DOMAIN path = 1..Len(path) /\ \A i \in 1..Len(path) : path[i] \in known
  BY <1>7
<1>9. ASSUME NEW i \in 2..Len(path) PROVE path[i] = oldest(path[i - 1])[parent]
  <2>1. path[i] = up[path[i - 1]] /\ path[i - 1] \in known
    BY <1>6, <1>7, <1>8 DEF IsPath
  <2>2. QED
    BY <1>4, <2>1
<1>10. /\ DOMAIN c = 1..Len(path) /\ Len(c) = Len(path)
       /\ \A i \in 1..Len(path) : c[i] = oldest(path[i])
  BY <1>1, <1>7, <1>8
<1> HIDE DEF c
<1>11. \A i \in 1..Len(path) : c[i] \in ToSet(w) /\ c[i][own] = path[i] /\ path[i] # Absent
  BY <1>3, <1>5, <1>8, <1>10
<1>12. ASSUME NEW i \in 2..Len(path) PROVE c[i][own] = c[i - 1][parent]
  <2>1. i \in 1..Len(path) /\ i - 1 \in 1..Len(path)
    BY <1>7
  <2>2. QED
    BY <1>9, <1>10, <1>11, <2>1
<1>13. QED
  BY <1>7, <1>10, <1>11, <1>12 DEF c

\* By identity it is a true chain, and only its last event can be a gap.
LEMMA EntityChainIs ==
    ASSUME ParentsOK, NEW w, Faithful(w), NEW x \in {Entity(e) : e \in ToSet(w)}
    PROVE  /\ IsPrefix(Entities(EntityChain(w, x)), <<x>> \o TrueAncestors(x))
           /\ ChainGaps(w, x) \subseteq {Entity(Last(EntityChain(w, x)))}
<1> DEFINE c == EntityChain(w, x)
           names == Entities(c)
<1>1. /\ w \in Seq(StoredEvent)
      /\ \A e \in ToSet(w) : Says(e) /\ e \in StoredEvent /\ Entity(e) \in Processes
  <2>1. w \in Seq(StoredEvent) /\ \A e \in ToSet(w) : Says(e) /\ e \in StoredEvent
    BY DEF Faithful, ToSet
  <2>2. \A e \in StoredEvent : Entity(e) \in Processes
    BY DEF StoredEvent, Entity
  <2>3. QED
    BY <2>1, <2>2
<1>2. x \in Processes /\ x # Absent /\ \E e \in ToSet(w) : e.process_entity_id = x
  BY <1>1, InvestigationAssumption DEF Entity
<1>3. /\ Len(c) \in Nat /\ Len(c) >= 1 /\ DOMAIN c = 1..Len(c)
      /\ \A i \in 1..Len(c) : c[i] \in ToSet(w)
      /\ Entity(c[1]) = x
      /\ \A i \in 2..Len(c) : Entity(c[i]) = Parent(c[i - 1])
  BY <1>1, <1>2, ChainOfIs DEF EntityChain, Entity, Parent
<1>4. \A e : e \in ChainGaps(w, x) =>
         \E f \in ToSet(c) : /\ e = Entity(f)
                             /\ Parent(f) \notin {Entity(g) : g \in ToSet(w)} \ {Absent}
  BY DEF ChainGaps
<1> HIDE DEF c
<1>5. \A i \in 1..Len(c) : Says(c[i]) /\ Entity(c[i]) \in Processes
  BY <1>1, <1>3
<1>6. /\ names \in Seq(Processes) /\ Len(names) = Len(c)
      /\ \A i \in 1..Len(c) : names[i] = Entity(c[i])
  BY <1>3, <1>5 DEF Entities
<1>7. ASSUME NEW i \in 2..Len(c) PROVE names[i] = parentOf[names[i - 1]]
  <2>1. i \in 1..Len(c) /\ i - 1 \in 1..Len(c)
    BY <1>3
  <2>2. names[i] = Parent(c[i - 1]) /\ names[i] \in Processes /\ names[i - 1] = Entity(c[i - 1])
    BY <1>3, <1>5, <1>6, <2>1
  <2>3. QED
    BY <1>5, <2>1, <2>2, InvestigationAssumption DEF Says
<1> HIDE DEF names
<1>8. IsChain(names, x)
  BY <1>3, <1>6, <1>7 DEF IsChain
<1>9. IsPrefix(names, <<x>> \o TrueAncestors(x))
  BY <1>2, <1>8, ShownIsPrefix
<1>10. ASSUME NEW e \in ChainGaps(w, x) PROVE e = Entity(Last(c))
  <2>1. PICK i \in 1..Len(c) : /\ e = Entity(c[i])
                               /\ Parent(c[i]) \notin {Entity(g) : g \in ToSet(w)} \ {Absent}
    BY <1>3, <1>4 DEF ToSet
  <2>2. CASE i # Len(c)
    <3>1. i + 1 \in 2..Len(c) /\ i + 1 - 1 = i /\ i + 1 \in 1..Len(c)
      BY <1>3, <2>2
    <3>2. Entity(c[i + 1]) = Parent(c[i]) /\ c[i + 1] \in ToSet(w) /\ Entity(c[i + 1]) \in Processes
      BY <1>3, <1>5, <3>1
    <3>3. QED
      BY <2>1, <3>2, InvestigationAssumption
  <2>3. CASE i = Len(c)
    BY <2>1, <2>3 DEF Last
  <2>4. QED
    BY <2>2, <2>3
<1>11. QED
  BY <1>9, <1>10 DEF names, c

\* By process id it is one where no id in the window is that of two processes.
LEMMA PidChainIs ==
    ASSUME GraphInv, PidsDistinct, NEW x \in {Entity(e) : e \in ToSet(Window)}
    PROVE  IsPrefix(Entities(PidChain(Window, PidOf[x])), <<x>> \o TrueAncestors(x))
<1> DEFINE w == Window
           c == PidChain(w, PidOf[x])
           names == Entities(c)
<1>1. w \in Seq(StoredEvent) /\ Faithful(w) /\ ParentsOK
  BY WindowIsFaithful DEF GraphInv, Faithful
<1>2. \A e \in ToSet(w) : /\ Says(e) /\ e.process_id = PidOf[Entity(e)]
                          /\ Entity(e) \in Processes /\ Entity(e) \in Mentioned
                          /\ parentOf[Entity(e)] # Absent => parentOf[Entity(e)] \in Mentioned
  <2>1. \A e \in ToSet(w) : Says(e) /\ e \in StoredEvent
    BY <1>1 DEF Faithful, ToSet
  <2>2. \A e \in StoredEvent : Entity(e) \in Processes
    BY DEF StoredEvent, Entity
  <2>3. \A e \in ToSet(w) : e.process_id = PidOf[Entity(e)]
    BY <2>1 DEF Says
  <2>4. \A e \in ToSet(w) : {Entity(e), parentOf[Entity(e)]} \ {Absent} \subseteq Mentioned
    BY DEF Mentioned
  <2>5. QED
    BY <2>1, <2>2, <2>3, <2>4, InvestigationAssumption
<1>3. x \in Processes /\ x \in Mentioned /\ \E e \in ToSet(w) : e.process_id = PidOf[x]
  BY <1>2
<1>4. TrueAncestors(x) \in Seq(Processes)
  <2>1. Ancestry(x) \in Seq(Processes) /\ Len(Ancestry(x)) >= 1
    BY <1>1, <1>3, AncestryIs DEF IsChain
  <2> DEFINE p == Ancestry(x)
  <2> HIDE DEF p
  <2>2. Tail(p) \in Seq(Processes)
    BY <2>1 DEF p
  <2>3. QED
    BY <2>2 DEF TrueAncestors, Ancestry, p
<1>5. CASE PidOf[x] = Absent
  <2>1. c = <<>>
    BY <1>5 DEF PidChain, ChainOf
  <2>2. names = <<>>
    BY <2>1 DEF Entities
  <2>3. <<x>> \o TrueAncestors(x) \in Seq(Processes)
    BY <1>3, <1>4
  <2> DEFINE s == <<x>> \o TrueAncestors(x)
  <2> HIDE DEF s
  <2>4. IsPrefix(<<>>, s)
    BY <2>3 DEF IsPrefix, s
  <2>5. QED
    BY <2>2, <2>4 DEF s
<1>6. CASE PidOf[x] # Absent
  <2>1. /\ Len(c) \in Nat /\ Len(c) >= 1 /\ DOMAIN c = 1..Len(c)
        /\ \A i \in 1..Len(c) : c[i] \in ToSet(w) /\ c[i].process_id # Absent
        /\ c[1].process_id = PidOf[x]
        /\ \A i \in 2..Len(c) : c[i].process_id = c[i - 1].parent_process_id
    <3> HIDE DEF w
    <3>1. QED
      BY <1>1, <1>3, <1>6, ChainOfIs DEF PidChain
  <2> HIDE DEF c, w
  <2>2. \A i \in 1..Len(c) : /\ Entity(c[i]) \in Processes /\ Entity(c[i]) \in Mentioned
                             /\ Says(c[i]) /\ c[i].process_id = PidOf[Entity(c[i])]
                             /\ parentOf[Entity(c[i])] # Absent =>
                                   parentOf[Entity(c[i])] \in Mentioned
    BY <1>2, <2>1
  <2>3. \A y, z \in Mentioned : PidOf[y] = PidOf[z] => y = z
    BY DEF PidsDistinct
  <2>4. /\ names \in Seq(Processes) /\ Len(names) = Len(c)
        /\ \A i \in 1..Len(c) : names[i] = Entity(c[i])
    BY <2>1, <2>2 DEF Entities
  <2> HIDE DEF names
  <2>5. names[1] = x
    BY <1>3, <2>1, <2>2, <2>3, <2>4
  <2>6. ASSUME NEW i \in 2..Len(c) PROVE names[i] = parentOf[names[i - 1]]
    <3>1. i \in 1..Len(c) /\ i - 1 \in 1..Len(c)
      BY <2>1
    <3> DEFINE e == c[i - 1]
               y == parentOf[Entity(e)]
    <3>2. e.parent_process_id = PidOf[Entity(c[i])] /\ e.parent_process_id # Absent
      BY <2>1, <2>2, <3>1
    <3>3. Says(e)
      BY <2>2, <3>1
    <3>4. y # Absent /\ e.parent_process_id = PidOf[y]
      BY <3>2, <3>3 DEF Says
    <3>5. y \in Mentioned /\ Entity(c[i]) \in Mentioned
      BY <2>2, <3>1, <3>4
    <3>6. Entity(c[i]) = y
      BY <2>3, <3>2, <3>4, <3>5
    <3>7. QED
      BY <2>4, <3>1, <3>6
  <2>7. IsChain(names, x)
    BY <2>1, <2>4, <2>5, <2>6 DEF IsChain
  <2>8. QED
    BY <1>1, <1>3, <2>7, ShownIsPrefix DEF names, c, w
<1>7. QED
  BY <1>5, <1>6

-----------------------------------------------------------------------------
\* So the graph and the chains are true, and explain where they stop.
LEMMA GraphFollows == GraphInv => GraphIsTrue /\ UncertaintyExplained
<1> SUFFICES ASSUME GraphInv PROVE GraphIsTrue /\ UncertaintyExplained
  OBVIOUS
<1>1. Faithful(Window) /\ ParentsOK
  BY WindowIsFaithful DEF GraphInv
<1>2. GraphIsTrue
  BY <1>1, GraphShowsTruth, EntityChainIs, PidChainIs DEF GraphIsTrue
<1>3. UncertaintyExplained
  BY <1>1, GraphExplainsItself, EntityChainIs DEF UncertaintyExplained
<1>4. QED
  BY <1>2, <1>3

-----------------------------------------------------------------------------
(* The control plane *)

\* Whichever part moves, each part makes a step of its own or none: the parts
\* do not disturb one another, and what holds of one alone holds of it here.
LEMMA EachPartAlone ==
    ControlPlaneSpec =>
        /\ CasesSpec /\ EvidenceSpec /\ SettingsSpec /\ HealthSpec
        /\ InvestigationSpec /\ PolicySpec /\ StartupSpec
<1>1. [ControlPlaneNext]_controlPlaneVars => [CasesNext]_casesVars
  BY DEF ControlPlaneNext, controlPlaneVars
<1>2. [ControlPlaneNext]_controlPlaneVars => [EvidenceNext]_evidenceVars
  BY DEF ControlPlaneNext, controlPlaneVars
<1>3. [ControlPlaneNext]_controlPlaneVars => [SettingsNext]_settingsVars
  BY DEF ControlPlaneNext, controlPlaneVars
<1>4. [ControlPlaneNext]_controlPlaneVars => [HealthNext]_healthVars
  BY DEF ControlPlaneNext, controlPlaneVars
<1>5. [ControlPlaneNext]_controlPlaneVars => [InvestigationNext]_investigationVars
  BY DEF ControlPlaneNext, controlPlaneVars
<1>6. [ControlPlaneNext]_controlPlaneVars => [PolicyNext]_task
  BY DEF ControlPlaneNext, controlPlaneVars
<1>7. [ControlPlaneNext]_controlPlaneVars => [StartupNext]_startupVars
  BY DEF ControlPlaneNext, controlPlaneVars
<1>8. ControlPlaneInit => /\ CasesInit /\ EvidenceInit /\ SettingsInit /\ HealthInit
                         /\ InvestigationInit /\ PolicyInit /\ StartupInit
  BY DEF ControlPlaneInit
<1>9. QED
  BY <1>1, <1>2, <1>3, <1>4, <1>5, <1>6, <1>7, <1>8, PTL
  DEF ControlPlaneSpec, CasesSpec, EvidenceSpec, SettingsSpec, HealthSpec,
      InvestigationSpec, PolicySpec, StartupSpec

\* OfflineIsExplained: an agent shown as offline has an alert for the very
\* heartbeat it was last seen with, or a scan is about to store one, however
\* many scans and heartbeats pass between the transactions of a scan; and every
\* alert is of a real gap (run_agent_health_detection).
THEOREM OfflineHasItsAlert == ControlPlaneSpec => []OfflineIsExplained
BY EachPartAlone, HealthInvariant, OfflineFollows, PTL

\* VersionsIncrease: with any number of administrators, only two PUTs that
\* overlap can give a version twice or take it back (set_agent_config).
THEOREM VersionsNameConfigurations == ControlPlaneSpec => []VersionsIncrease
BY EachPartAlone, SettingsInvariant, VersionsFollow, PTL

\* HuntsKeepACriterion: no interleaving of updates and runs leaves a hunt
\* without a criterion, and one loses what was asked for only where two updates
\* of the same hunt overlapped (update_hunt, run_saved_hunt).
THEOREM HuntsSearchForSomething == ControlPlaneSpec => []HuntsKeepACriterion
<1>1. SettingsInv => HuntsKeepACriterion
  BY DEF SettingsInv
<1>2. QED
  BY <1>1, EachPartAlone, SettingsInvariant, PTL

\* EvidenceHolds: whatever uploads overlap, are repeated or break off, a row of
\* evidence has its object, of its content, and an object that is torn or says
\* something else was disturbed or uploaded again (build_agent_evidence,
\* put_json, store_agent_evidence).
THEOREM EvidenceIsKept == ControlPlaneSpec => []EvidenceHolds
BY EachPartAlone, EvidenceInvariant, EvidenceFollows, PTL

\* TokensHaveCause: whatever the settings servers are started with, a token that
\* nobody was given came of a refused or broken download, or of a start outside
\* production with a blank enrollment token, and no server in production revives a
\* revoked one (create_app, _runtime_config, create_enrollment_token).
THEOREM TokensAreExplained == ControlPlaneSpec => []TokensHaveCause
BY EachPartAlone, StartupInvariant, PTL

\* TablesAgree: whatever the analyst asks for, the server and the agent give it
\* the same verdict, and valid arguments reach a task as they were checked, but
\* for a blank reason or case_id (create_task, executeAndReport, Execute).
THEOREM ServerAndAgentAgree == ControlPlaneSpec => []TablesAgree
BY EachPartAlone, PolicyInvariant, TablesFollow, PTL

\* OneCaseWithItsEdits, which CasesProofs proves of the cases alone, of the cases
\* in the control plane (start_investigation_workspace, update_case).
THEOREM CasesKeepTheirEdits == ControlPlaneSpec => []OneCaseWithItsEdits
BY EachPartAlone, OneCaseForAnAlert, PTL

\* CasesCarryTheirEvidence, which CasesProofs proves of the cases alone, of the
\* cases in the control plane (create_case, attach_workspace_task_evidence,
\* _raw_refs_from_case_evidence).
THEOREM CasesKeepTheirEvidence == ControlPlaneSpec => []CasesCarryTheirEvidence
BY EachPartAlone, EvidenceStaysWithItsCase, PTL

\* StoresAgree: whatever events arrive and whatever texts and needles are made of,
\* ClickHouse answers a filter with no event that SQLite does not, nor does PostgreSQL
\* without a backslash, and with the same ones if there is no wildcard, or no letter with
\* another case; and pages of related events differ in nothing but events of one
\* timestamp (_event_query, _event_where, related_events, _ch_datetime).
THEOREM StoresGiveTheSame == ControlPlaneSpec => []StoresAgree
BY EachPartAlone, InvestigationInvariant, StoresFollow, PTL

\* WorkspaceIsComplete: whatever events arrived, the workspace of an alert shows
\* its event, and the hunt under it has every event of the timeline with an
\* indicator, counts each once and dates the first of them, unless they are more
\* than a page (_build_workspace_package, _related_timeline, _hunt_package).
THEOREM WorkspaceShowsItsEvents == ControlPlaneSpec => []WorkspaceIsComplete
BY EachPartAlone, InvestigationInvariant, WorkspaceFollows, PTL

\* GraphIsTrue: whatever events arrived, however few of them the window holds, the
\* ancestors, descendants and timeline of a process and the older chains are true
\* ones, in order and once each, and the two directions agree; by process id, as
\* long as no id in the window is that of two processes (_build_process_graph,
\* process_chain).
THEOREM GraphShowsNothingUntrue == ControlPlaneSpec => []GraphIsTrue
BY EachPartAlone, GraphInvariant, GraphFollows, PTL

\* UncertaintyExplained: a graph whose ancestry stops short of the truth has a gap
\* where it stops, or an event that names a parent without one; and there is
\* no gap anywhere else (_append_process_gap).
THEOREM GapsAreWhereItStops == ControlPlaneSpec => []UncertaintyExplained
BY EachPartAlone, GraphInvariant, GraphFollows, PTL

\* ControlPlaneTypeOK: every row, every handler's state and every bound of the
\* seven parts is as their type invariants say, for all values of the parameters.
THEOREM ControlPlaneTypes == ControlPlaneSpec => []ControlPlaneTypeOK
<1>1. ControlPlaneSpec => []CasesTypeOK
  BY EachPartAlone, LinksInvariant, CaseTypesFollow, PTL
<1>2. ControlPlaneSpec => []InvestigationTypeOK
  BY EachPartAlone, InvestigationInvariant, InvestigationTypesFollow, PTL
<1>3. ControlPlaneSpec => []HealthTypeOK /\ []EvidenceTypeOK /\ []SettingsTypeOK
  BY EachPartAlone, HealthTypesFollow, EvidenceTypesFollow, SettingsTypesFollow, PTL
<1>4. ControlPlaneSpec => []PolicyTypeOK /\ []StartupTypeOK
  BY EachPartAlone, PolicyTypesFollow, StartupTypesFollow, PTL
<1>5. QED
  BY <1>1, <1>2, <1>3, <1>4, PTL DEF ControlPlaneTypeOK
=============================================================================
