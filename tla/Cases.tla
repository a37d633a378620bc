------------------------------- MODULE Cases ---------------------------------
(***************************************************************************)
(* Cases and the evidence linked to them (open_edr_mdr_agent/api/store.py: *)
(* create_case ... list_case_evidence; app.py: the case endpoints, the     *)
(* workspace start and the attachment of task evidence).                   *)
(*                                                                         *)
(* Handlers run on a pool of threads.  A start reads the case of an alert, *)
(* creates one if there is none, and then updates it with values it has    *)
(* read: three transactions.  Attaching reads the task and inserts the     *)
(* link: two.  Every other operation here is one transaction.  A case made *)
(* without an alert has no links of its own and is left out.               *)
(*                                                                         *)
(* Definitions named X_Y are mutants: X as a plausible slip would have it. *)
(***************************************************************************)
EXTENDS Naturals, Sequences, FiniteSets, FiniteSetsExt, SequencesExt, Selection

CONSTANTS
    Alerts, Analysts,   \* alerts in the store, and threads that serve analysts
    Priorities,         \* values of priority
    Severity,           \* [Alerts -> Priorities]
    Tasks, TaskCase,    \* tasks, and the case_id among their arguments, or 0
    Reports,            \* what a task can report
    ByHand,             \* rows an analyst may link by hand: type, ref and raw
    None,
    MaxCases, MaxEdits  \* bounds

ASSUME CasesAssumption ==
    /\ Severity \in [Alerts -> Priorities] /\ TaskCase \in [Tasks -> 0..MaxCases]
    /\ None \notin Priorities \cup Alerts \cup Reports \cup (Tasks \X Reports)
    /\ \A l \in ByHand : l.ref # None
    /\ MaxCases \in Nat /\ MaxEdits \in Nat

VARIABLES
    cases,    \* the cases table; a case_id is an index into it
    links,    \* the case_evidence table, in order of insertion
    taskRow,  \* per task its raw_ref, and the reports stored as raw evidence
    analyst,  \* what each thread is in the middle of
    clock,    \* orders updated_at
    asked,    \* history: the priority last asked for, per case
    raced,    \* history: alerts whose start overlapped with another writer
    edits     \* history: how many

casesVars == <<cases, links, taskRow, analyst, clock, asked, raced, edits>>

-----------------------------------------------------------------------------
CaseIds == DOMAIN cases
Rest == [pc |-> "idle", alert |-> None, case |-> 0, wants |-> None, read |-> None,
         task |-> None, raw |-> None]

CasesInit ==
    /\ cases = <<>> /\ links = <<>> /\ clock = 0 /\ asked = <<>>
    /\ taskRow = [t \in Tasks |-> [raw |-> None, made |-> {}]]
    /\ analyst = [w \in Analysts |-> Rest]
    /\ raced = {} /\ edits = 0

Edit == edits < MaxEdits /\ edits' = edits + 1

\* get_case_by_alert: the case of the alert that was updated last.
CasesOf(a) == {c \in CaseIds : cases[c].alert = a}
Current(a) == CHOOSE c \in CasesOf(a) : \A d \in CasesOf(a) : cases[d].at <= cases[c].at

\* A start that has read, and has not yet written, what another handler writes.
InFlight(w, a) == analyst[w].pc \in {"create", "update"} /\ analyst[w].alert = a
Overlaps(a, others) == IF \E w \in others : InFlight(w, a) THEN {a} ELSE {}

\* The rows of case_evidence: ref_id and data.raw_ref; "by" is history, the operation
\* that made the row.  An alert stands for its id and for its raw_ref, a task and what
\* it reports for the raw_ref of that report (a hash of it).
OwnLink(c, type, a) ==
    [case |-> c, by |-> "case", type |-> type, ref |-> a, raw |-> a]
TaskLink(c, t, report) ==
    [case |-> c, by |-> "task", type |-> "task_result", ref |-> t, raw |-> <<t, report>>]
HandLink(c, l) ==
    [case |-> c, by |-> "hand", type |-> l.type, ref |-> l.ref, raw |-> l.raw]

\* create_case: the case, and the two links to its alert, in one transaction.
AlertLinks(c, a) == <<OwnLink(c, "alert", a), OwnLink(c, "raw_evidence", a)>>

Insert(a, priority) ==
    /\ Len(cases) < MaxCases
    /\ cases' = Append(cases, [alert |-> a, status |-> "open",
                               priority |-> priority, at |-> clock + 1])
    /\ links' = links \o AlertLinks(Len(cases) + 1, a)
    /\ asked' = Append(asked, priority)
    /\ clock' = clock + 1

\* POST /cases makes a case for an alert whether or not there is one, and leaves
\* its priority empty.
CreateCase(a) ==
    /\ Edit /\ Insert(a, None)
    /\ raced' = raced \cup {a}
    /\ UNCHANGED <<taskRow, analyst>>

-----------------------------------------------------------------------------
(* start_investigation_workspace *)

StartRead(w, a, wants) ==
    /\ analyst[w] = Rest /\ Edit
    /\ analyst' = [analyst EXCEPT ![w] =
         IF CasesOf(a) = {}
         THEN [Rest EXCEPT !.pc = "create", !.alert = a, !.wants = wants]
         ELSE [Rest EXCEPT !.pc = "update", !.alert = a, !.wants = wants,
                           !.case = Current(a), !.read = cases[Current(a)].priority]]
    /\ UNCHANGED <<cases, links, taskRow, clock, asked, raced>>

StartCreate(w) ==
    LET a == analyst[w].alert
        p == IF analyst[w].wants = None THEN Severity[a] ELSE analyst[w].wants
    IN /\ analyst[w].pc = "create"
       /\ Insert(a, p)
       /\ analyst' = [analyst EXCEPT ![w].pc = "update", ![w].read = p,
                                     ![w].case = Len(cases) + 1]
       /\ raced' = raced \cup Overlaps(a, Analysts \ {w})
       /\ UNCHANGED <<taskRow, edits>>

\* update_case(status="investigating", priority=req.priority or case.priority):
\* the priority it read is written back, whatever it is now.
Chosen_Severity(w) ==
    IF analyst[w].wants = None THEN Severity[analyst[w].alert] ELSE analyst[w].wants
Chosen(w) == IF analyst[w].wants = None THEN analyst[w].read ELSE analyst[w].wants

StartUpdate(w) ==
    LET c == analyst[w].case IN
    /\ analyst[w].pc = "update"
    /\ cases' = [cases EXCEPT
         ![c].status = "investigating", ![c].at = clock + 1,
         ![c].priority = IF Chosen(w) = None THEN @ ELSE Chosen(w)]
    /\ asked' = IF analyst[w].wants = None THEN asked
                ELSE [asked EXCEPT ![c] = analyst[w].wants]
    /\ clock' = clock + 1
    /\ analyst' = [analyst EXCEPT ![w] = Rest]
    /\ raced' = raced \cup (IF analyst[w].wants = None THEN {}
                            ELSE Overlaps(cases[c].alert, Analysts \ {w}))
    /\ UNCHANGED <<links, taskRow, edits>>

\* PATCH /cases/{id}: only the fields that are given change.
Patch(c, status, priority) ==
    /\ c \in CaseIds /\ Edit
    /\ cases' = [cases EXCEPT ![c].at = clock + 1,
         ![c].status = IF status = None THEN @ ELSE status,
         ![c].priority = IF priority = None THEN @ ELSE priority]
    /\ asked' = IF priority = None THEN asked ELSE [asked EXCEPT ![c] = priority]
    /\ clock' = clock + 1
    /\ raced' = raced \cup (IF priority = None THEN {}
                            ELSE Overlaps(cases[c].alert, Analysts))
    /\ UNCHANGED <<links, taskRow, analyst>>

-----------------------------------------------------------------------------
(* attach_workspace_task_evidence, and the tasks it reads *)

Attachable_AnyCase(t, c) == taskRow[t].raw # None
Attachable(t, c) == taskRow[t].raw # None /\ TaskCase[t] \in {0, c}

AttachRead(w, t, c) ==
    /\ analyst[w] = Rest /\ Edit
    /\ Attachable(t, c)
    /\ analyst' = [analyst EXCEPT ![w] = [Rest EXCEPT !.pc = "attach", !.case = c,
                                              !.task = t, !.raw = taskRow[t].raw]]
    /\ UNCHANGED <<cases, links, taskRow, clock, asked, raced>>

\* add_case_evidence: nothing is linked to a case that does not exist.
Linkable_Any(c) == TRUE
Linkable(c) == c \in CaseIds
Link(l) == links' = IF Linkable(l.case) THEN Append(links, l) ELSE links

AttachInsert(w) ==
    LET job == analyst[w] IN
    /\ job.pc = "attach"
    /\ Link(TaskLink(job.case, job.task, job.raw))
    /\ analyst' = [analyst EXCEPT ![w] = Rest]
    /\ UNCHANGED <<cases, taskRow, clock, asked, raced, edits>>

\* POST /cases/{id}/evidence: any type, any reference and any data, whatever they
\* name; only the case is looked at.
AddEvidence(c, l) ==
    /\ Edit /\ Link(HandLink(c, l))
    /\ UNCHANGED <<cases, taskRow, analyst, clock, asked, raced>>

\* complete_task, whatever the task's status: the report is stored (insert or ignore)
\* and the row points to it, to an older one if it says the same.  No other
\* operation changes raw_ref, and a retry does not clear it.
Report(t, report) ==
    /\ taskRow' = [taskRow EXCEPT ![t] = [raw |-> report, made |-> @.made \cup {report}]]
    /\ UNCHANGED <<cases, links, analyst, clock, asked, raced, edits>>

-----------------------------------------------------------------------------
CasesNext ==
    \/ \E a \in Alerts : CreateCase(a)
    \/ \E w \in Analysts :
          \/ \E a \in Alerts, p \in Priorities \cup {None} : StartRead(w, a, p)
          \/ StartCreate(w)
          \/ StartUpdate(w)
          \/ \E t \in Tasks, c \in 1..MaxCases : AttachRead(w, t, c)
          \/ AttachInsert(w)
    \/ \E c \in CaseIds, l \in ByHand : AddEvidence(c, l)
    \/ \E c \in CaseIds, p \in Priorities : Patch(c, None, p)
    \/ \E c \in CaseIds : Patch(c, "closed", None)
    \/ \E t \in Tasks, report \in Reports : Report(t, report)

CasesSpec == CasesInit /\ [][CasesNext]_casesVars

-----------------------------------------------------------------------------
\* The evidence of a case as list_case_evidence returns it, and the references
\* case_handoff makes of it (_raw_refs_from_case_evidence): of each link its ref_id
\* if it is raw evidence, then its data.raw_ref if it has one; every reference
\* once, the first mention first.
EvidenceOf(c) == Picked(links, {i \in DOMAIN links : links[i].case = c})
Mentions(evidence) ==
    [k \in 1..(2 * Len(evidence)) |->
        LET l == evidence[(k + 1) \div 2] IN
        IF k % 2 = 0 THEN l.raw ELSE IF l.type = "raw_evidence" THEN l.ref ELSE None]
FirstMentions(s) == {i \in DOMAIN s : s[i] # None /\ \A j \in 1..(i - 1) : s[j] # s[i]}
RawRefs(c) ==
    LET refs == Mentions(EvidenceOf(c)) IN Picked(refs, FirstMentions(refs))
Starts == {w \in Analysts : analyst[w].pc \in {"create", "update"}}

CasesTypeOK ==
    /\ cases \in Seq([alert : Alerts, status : {"open", "investigating", "closed"},
                      priority : Priorities \cup {None}, at : 1..clock])
    /\ \A l \in ToSet(links) : \E c \in CaseIds :
          l \in {OwnLink(c, type, cases[c].alert) : type \in {"alert", "raw_evidence"}}
               \cup {TaskLink(c, t, report) : t \in Tasks, report \in Reports}
               \cup {HandLink(c, h) : h \in ByHand}
    /\ taskRow \in [Tasks -> [raw : Reports \cup {None}, made : SUBSET Reports]]
    /\ \A w \in Starts : analyst[w].pc = "update" => analyst[w].case \in CaseIds
    /\ Len(asked) = Len(cases) /\ edits \in 0..MaxEdits

\* What a link refers to, and what the tasks of a case have reported.
RefsOf(l) ==
    (IF l.type = "raw_evidence" THEN {l.ref} ELSE {}) \cup ({l.raw} \ {None})
Reported(c) ==
    {ref \in Tasks \X Reports : TaskCase[ref[1]] \in {0, c} /\ ref[2] \in taskRow[ref[1]].made}

\* A case is never without its alert and the alert's raw evidence.  Its handoff
\* names the alert's evidence first, and each thing its links refer to once, two
\* ways or not; and all it names is the alert's evidence, what a task of no other
\* case has reported and is stored, or what an analyst linked to it by hand.
CasesCarryTheirEvidence ==
    \A c \in CaseIds :
        LET a == cases[c].alert
            linked == ToSet(EvidenceOf(c))
        IN /\ ToSet(AlertLinks(c, a)) \subseteq linked
           /\ RawRefs(c)[1] = a /\ IsInjective(RawRefs(c))
           /\ ToSet(RawRefs(c)) = UNION {RefsOf(l) : l \in linked}
           /\ \A ref \in ToSet(RawRefs(c)) \ ({a} \cup Reported(c)) :
                 \E l \in linked : l.by = "hand" /\ ref \in RefsOf(l)

\* Starting a workspace twice leads to the same case, and the priority of a case
\* is the one an analyst asked for last, or the one it was created with: both
\* unless, for that alert, a start overlapped with another writer of its case or
\* the case endpoint was used to make one.  The start reads the case and then
\* writes what it read, so only such an overlap can lose an edit or add a case.
OneCaseWithItsEdits ==
    \A a \in Alerts \ raced :
        /\ Cardinality(CasesOf(a)) <= 1
        /\ \A c \in CasesOf(a) : cases[c].priority = asked[c]
=============================================================================
