--------------------------- MODULE TenantSettings ----------------------------
(***************************************************************************)
(* What administrators change by reading first and writing then: the agent *)
(* configuration of a tenant and its saved hunts (open_edr_mdr_agent/api/  *)
(* store.py: get_agent_config, set_agent_config, create_hunt ...           *)
(* list_hunt_runs; app.py: put_config and the hunt endpoints).             *)
(*                                                                         *)
(* The read and the write of a handler are two transactions on a pool of   *)
(* threads.  An update of a hunt reads indicator and query, and writes     *)
(* both back; running a hunt reads it, searches, and records the result.   *)
(*                                                                         *)
(* Definitions named X_Y are mutants: X as a plausible slip would have it. *)
(***************************************************************************)
EXTENDS Naturals, Sequences, FiniteSets

CONSTANTS
    Admins,                \* threads that serve administrators
    Bodies,                \* configurations
    Indicators, Queries,   \* values of a hunt's two criteria
    NoCriterion,           \* a null or empty indicator, an empty query
    Keep,                  \* a field the request leaves out
    MaxVersion, MaxChanges \* bounds: versions asked for, requests

ASSUME SettingsAssumption ==
    /\ NoCriterion \notin Indicators \cup Queries
    /\ Keep \notin Indicators \cup Queries \cup {NoCriterion} \cup BOOLEAN
    /\ MaxVersion \in Nat /\ MaxChanges \in Nat

VARIABLES
    config,     \* the row of tenant_configs: the default before the first PUT
    puts,       \* history: configurations stored, oldest first
    hunts,      \* the hunts table; a hunt_id is an index into it
    huntRuns,   \* the hunt_runs table
    admin,      \* what each thread is in the middle of
    wanted,     \* history: per hunt, the criteria last asked for
    crossed,    \* history: hunts whose update overlapped with another
    crossedPut, \* history: two PUTs of the configuration overlapped
    changes     \* history: how many requests

settingsVars ==
    <<config, puts, hunts, huntRuns, admin, wanted, crossed, crossedPut, changes>>

-----------------------------------------------------------------------------
HuntIds == DOMAIN hunts
Waiting == [pc |-> "idle", hunt |-> 0]
NewRequest == changes < MaxChanges /\ changes' = changes + 1

SettingsInit ==
    /\ config = [version |-> 1, body |-> NoCriterion] /\ puts = <<>>
    /\ hunts = <<>> /\ huntRuns = <<>> /\ wanted = <<>>
    /\ admin = [w \in Admins |-> Waiting]
    /\ crossed = {} /\ crossedPut = FALSE /\ changes = 0

\* Another handler has read what this one reads, and has not written it yet.
Crosses(w, pc, h) == \E v \in Admins \ {w} : admin[v].pc = pc /\ admin[v].hunt = h
Asked(field, read) == IF field = Keep THEN read ELSE field

-----------------------------------------------------------------------------
(* put_config and set_agent_config *)

\* The version is the requested one, or the one after the version it read.
NextVersion_AsAsked(asked, current) == asked
NextVersion(asked, current) == IF asked <= current THEN current + 1 ELSE asked

PutRead(w, body, asked) ==
    /\ admin[w] = Waiting /\ NewRequest
    /\ admin' = [admin EXCEPT ![w] = [pc |-> "put", hunt |-> 0, body |-> body,
                     version |-> NextVersion(asked, config.version)]]
    /\ crossedPut' = (crossedPut \/ Crosses(w, "put", 0))
    /\ UNCHANGED <<config, puts, hunts, huntRuns, wanted, crossed>>

PutWrite(w) ==
    /\ admin[w].pc = "put"
    /\ config' = [version |-> admin[w].version, body |-> admin[w].body]
    /\ puts' = Append(puts, config')
    /\ admin' = [admin EXCEPT ![w] = Waiting]
    /\ UNCHANGED <<hunts, huntRuns, wanted, crossed, crossedPut, changes>>

-----------------------------------------------------------------------------
(* The hunts *)

Given(criteria) == criteria.indicator # NoCriterion \/ criteria.query # NoCriterion

\* create_saved_hunt: indicator_or_query_required.
CreateHunt(criteria, enabled) ==
    /\ Given(criteria) /\ NewRequest
    /\ hunts' = Append(hunts, [criteria |-> criteria, enabled |-> enabled])
    /\ wanted' = Append(wanted, criteria)
    /\ UNCHANGED <<config, puts, huntRuns, admin, crossed, crossedPut>>

\* update_hunt: a field that is left out keeps the value that was read; without
\* a criterion the request is refused (400) and nothing changes.
UpdateRead(w, h, i, q, enabled) ==
    LET next == [indicator |-> Asked(i, hunts[h].criteria.indicator),
                 query |-> Asked(q, hunts[h].criteria.query)]
    IN /\ admin[w] = Waiting /\ Given(next) /\ NewRequest
       /\ admin' = [admin EXCEPT ![w] = [pc |-> "update", hunt |-> h, next |-> next,
                                         indicator |-> i, enabled |-> enabled]]
       /\ wanted' = [wanted EXCEPT ![h] = [indicator |-> Asked(i, @.indicator),
                                           query |-> Asked(q, @.query)]]
       /\ crossed' = IF Crosses(w, "update", h) THEN crossed \cup {h} ELSE crossed
       /\ UNCHANGED <<config, puts, hunts, huntRuns, crossedPut>>

\* Both criteria are written as they were read; enabled only if it was given.
Criteria_IndicatorIfAsked(old, job) ==
    [job.next EXCEPT !.indicator = Asked(job.indicator, old.indicator)]
Criteria(old, job) == job.next

UpdateWrite(w) ==
    LET job == admin[w] IN
    /\ job.pc = "update"
    /\ hunts' = [hunts EXCEPT ![job.hunt] =
                    [criteria |-> Criteria(@.criteria, job),
                     enabled |-> Asked(job.enabled, @.enabled)]]
    /\ admin' = [admin EXCEPT ![w] = Waiting]
    /\ UNCHANGED <<config, puts, huntRuns, wanted, crossed, crossedPut, changes>>

\* run_saved_hunt: the hunt is read once, the search made, the run recorded.
RunRead(w, h) ==
    /\ admin[w] = Waiting /\ hunts[h].enabled /\ NewRequest
    /\ admin' = [admin EXCEPT ![w] = [pc |-> "run", hunt |-> h,
                                      criteria |-> hunts[h].criteria]]
    /\ UNCHANGED <<config, puts, hunts, huntRuns, wanted, crossed, crossedPut>>

RunRecord(w) ==
    /\ admin[w].pc = "run"
    /\ huntRuns' = Append(huntRuns, [hunt |-> admin[w].hunt, criteria |-> admin[w].criteria])
    /\ admin' = [admin EXCEPT ![w] = Waiting]
    /\ UNCHANGED <<config, puts, hunts, wanted, crossed, crossedPut, changes>>

CriteriaSet == [indicator : Indicators \cup {NoCriterion},
                query : Queries \cup {NoCriterion}]

SettingsNext ==
    \/ \E w \in Admins :
          \/ \E b \in Bodies, v \in 1..MaxVersion : PutRead(w, b, v)
          \/ PutWrite(w)
          \/ \E h \in HuntIds, i \in Indicators \cup {NoCriterion, Keep},
                q \in Queries \cup {NoCriterion, Keep}, e \in BOOLEAN \cup {Keep} :
                   UpdateRead(w, h, i, q, e)
          \/ UpdateWrite(w)
          \/ \E h \in HuntIds : RunRead(w, h)
          \/ RunRecord(w)
    \/ \E c \in CriteriaSet, e \in BOOLEAN : CreateHunt(c, e)

SettingsSpec == SettingsInit /\ [][SettingsNext]_settingsVars

-----------------------------------------------------------------------------
SettingsTypeOK ==
    /\ config \in [version : Nat \ {0}, body : Bodies \cup {NoCriterion}]
    /\ hunts \in Seq([criteria : CriteriaSet, enabled : BOOLEAN])
    /\ wanted \in Seq(CriteriaSet) /\ Len(wanted) = Len(hunts)
    /\ huntRuns \in Seq([hunt : HuntIds, criteria : CriteriaSet])
    /\ \A w \in Admins : admin[w].pc \in {"update", "run"} => admin[w].hunt \in HuntIds
    /\ crossed \subseteq HuntIds /\ changes \in 0..MaxChanges

\* Unless two PUTs overlapped, the versions stored for a tenant increase, so a
\* version names one configuration and a heartbeat's config_version says which
\* one the endpoint has.
VersionsIncrease ==
    crossedPut \/ \A i, j \in DOMAIN puts : i < j => puts[i].version < puts[j].version

\* However updates and runs of a hunt interleave, the hunt keeps an indicator or
\* a query, even when one administrator clears the one while another clears the
\* other, and so every recorded run was of a search with a criterion.  Criteria
\* an administrator asked for are lost only where two updates overlapped.
HuntsKeepACriterion ==
    /\ \A h \in HuntIds : Given(hunts[h].criteria)
    /\ \A i \in DOMAIN huntRuns : Given(huntRuns[i].criteria)
    /\ \A h \in HuntIds \ crossed :
          \/ hunts[h].criteria = wanted[h]
          \/ \E w \in Admins : admin[w].pc = "update" /\ admin[w].hunt = h
=============================================================================
