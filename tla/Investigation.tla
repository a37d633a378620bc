---------------------------- MODULE Investigation ----------------------------
(***************************************************************************)
(* What an analyst is shown of the events of an endpoint: graph and chain  *)
(* of a process, the timeline of an alert and the hunt for its indicators  *)
(* (open_edr_mdr_agent/api/app.py: _build_workspace_package and the        *)
(* helpers under it).                                                      *)
(*                                                                         *)
(* Events arrive one by one, and any of them may be lost or late.  The     *)
(* agent names the parent of a process if it knows it, and otherwise gives *)
(* a reason (agent/internal/collect/process_identity.go); the true parents *)
(* are chosen at the start, and the pages shown are compared with them.    *)
(* That the agent may name a wrong parent is the subject of ProcessTracker.*)
(*                                                                         *)
(* Definitions named X_Y are mutants: X as a plausible slip would have it. *)
(***************************************************************************)
EXTENDS ProcessGraph, FiniteSets, FiniteSetsExt, Functions

CONSTANTS
    Processes, PidOf, NameOf,   \* processes 1, 2, ..., their ids and names
    Endpoint, RemotesOf,        \* the host, and the addresses a process connects to
    Limit, PageLimit,           \* limits of the graph's window and of a page
    MaxEvents                   \* bound

ASSUME InvestigationAssumption ==
    /\ Processes \subseteq Nat /\ IsFiniteSet(Processes) /\ Absent \notin Processes
    /\ NameOf \in [Processes -> Texts]
    /\ RemotesOf \in [Processes -> SUBSET (Needles \cap Texts)]
    /\ \A v \in UNION {RemotesOf[x] : x \in Processes} : JsonText(Spelling[v]) = Spelling[v]
    /\ Limit \in Nat /\ PageLimit \in Nat /\ MaxEvents \in Nat
    /\ 1..MaxEvents \subseteq DOMAIN Timestamp
    /\ \A i, j \in 1..MaxEvents : i < j => Timestamp[i] <= Timestamp[j]

VARIABLES
    stored,    \* the events of the endpoint in the store, the oldest first
    parentOf   \* the parent of each process, or Absent

Remotes == UNION {RemotesOf[x] : x \in Processes}

investigationVars == <<stored, parentOf>>

-----------------------------------------------------------------------------
\* A parent is running when it creates a child, so the child has another id.
InvestigationInit ==
    /\ stored = <<>>
    /\ parentOf \in [Processes -> Processes \cup {Absent}]
    /\ \A x \in Processes :
          parentOf[x] # Absent => parentOf[x] < x /\ PidOf[parentOf[x]] # PidOf[x]

\* ApplyProcessIdentity: a parent is named, or there is a reason why not, if the
\* collector had the parent's process id; that of a connection has none.
EventsOf(x) ==
    LET base == [id |-> 0, event_type |-> "network_connection",
                 host |-> Endpoint, process_entity_id |-> x, process_id |-> PidOf[x],
                 process_name |-> NameOf[x], parent_process_id |-> Absent,
                 remote_ip |-> Absent, parent_process_entity_id |-> Absent,
                 missing_parent |-> FALSE]
        p == parentOf[x]
        lifecycle == [base EXCEPT !.parent_process_id = IF p = Absent THEN p ELSE PidOf[p]]
    IN {[base EXCEPT !.remote_ip = address] : address \in RemotesOf[x]} \cup
       {[lifecycle EXCEPT !.event_type = type, !.parent_process_entity_id = q,
                          !.missing_parent = p # Absent /\ q = Absent] :
          type \in {"process_start", "process_stop"}, q \in {p, Absent}}

\* The events are numbered as they are stored.
Observe(x) ==
    /\ Len(stored) < MaxEvents
    /\ \E e \in EventsOf(x) : stored' = Append(stored, [e EXCEPT !.id = Len(stored) + 1])
    /\ UNCHANGED parentOf

InvestigationNext == \E x \in Processes : Observe(x)
InvestigationSpec == InvestigationInit /\ [][InvestigationNext]_investigationVars

-----------------------------------------------------------------------------
(* The workspace of an alert, which names its event *)

\* _related_timeline: the events of the process, which every event here names.
RelatedTimeline(e) ==
    RelatedEvents("sqlite", stored, "process_entity_id", Entity(e), PageLimit)

\* _timeline_indicators and the events half of _hunt_package.
TimelineIndicators(timeline) == {e.remote_ip : e \in ToSet(timeline)} \ {Absent}
AnyEvent == [k \in Exact \cup {"process_name", "indicator"} |-> Absent]
HuntFor(v) == ListEvents("sqlite", stored, [AnyEvent EXCEPT !.indicator = v], PageLimit)
HuntEvents_Repeats(timeline) ==
    LET values == SetToSeq(TimelineIndicators(timeline))
    IN FlattenSeq([n \in DOMAIN values |-> HuntFor(values[n])])
Unseen(found, events) == {i \in DOMAIN events : events[i] \notin ToSet(found)}
HuntEvents(timeline) ==
    LET values == SetToSeq(TimelineIndicators(timeline))
        found[n \in 0..Len(values)] ==
            IF n = 0 THEN <<>>
            ELSE LET events == HuntFor(values[n])
                 IN found[n - 1] \o Picked(events, Unseen(found[n - 1], events))
    IN found[Len(values)]

\* _hunt_summary: the count and the timestamp of the first.
Summary(events) ==
    [event_count |-> Len(events),
     first_seen |-> IF events = <<>> THEN 0 ELSE Min({e.id : e \in ToSet(events)})]

\* _build_workspace_package, of an alert about the event e: what of it the
\* endpoint's other records do not bear on.
Workspace(e) ==
    LET timeline == RelatedTimeline(e)
        events == HuntEvents(timeline)
    IN [related_timeline |-> timeline, events |-> events, summary |-> Summary(events)]

-----------------------------------------------------------------------------
TrueAncestors(x) == Tail(Path(x, Processes, parentOf))
Window == Reverse(Latest(stored, Limit))
Entities(events) == [i \in DOMAIN events |-> Entity(events[i])]
\* No process id in the window is that of two processes, parents included.
Mentioned == UNION {{Entity(e), parentOf[Entity(e)]} \ {Absent} : e \in ToSet(Window)}
PidsDistinct == \A x, y \in Mentioned : PidOf[x] = PidOf[y] => x = y

InvestigationTypeOK ==
    /\ Len(stored) \in 0..MaxEvents
    /\ \A i \in DOMAIN stored : stored[i].id = i /\ Entity(stored[i]) \in Processes
    /\ parentOf \in [Processes -> Processes \cup {Absent}]

\* Whatever part of the history the window holds, the graph and the chain show
\* nothing untrue: ancestors are the true ones in their order, up to some point,
\* descendants are true ones, once each, the two directions agree, and the
\* timeline is that of the process and of its descendants.  The chain by process
\* id is held to that where no id in the window was reused.
GraphIsTrue ==
    LET w == Window IN
    /\ \A x \in Known(w) :
          LET below == Entities(Descendants(w, x)) IN
          /\ IsPrefix(Ancestors(w, x), TrueAncestors(x))
          /\ IsInjective(below)
          /\ \A y \in ToSet(below) : x \in ToSet(TrueAncestors(y))
          /\ \A e \in ToSet(Timeline(w, x)) : x \in {Entity(e)} \cup ToSet(TrueAncestors(Entity(e)))
          /\ \A y \in ToSet(Ancestors(w, x)) : x \in ToSet(Entities(Descendants(w, y)))
    /\ \A x \in {Entity(e) : e \in ToSet(w)} :
          /\ IsPrefix(Entities(EntityChain(w, x)), <<x>> \o TrueAncestors(x))
          /\ PidsDistinct =>
                IsPrefix(Entities(PidChain(w, PidOf[x])), <<x>> \o TrueAncestors(x))

\* A graph whose ancestry stops short of the truth says so: with a gap at the
\* process it stops at, or -- less than docs/adr/0003-process-entity-identity.md:41
\* has it -- because the parent that process names has no event in the window.
\* And a gap is only ever reported where the ancestry stops.
UncertaintyExplained ==
    LET w == Window IN
    /\ \A x \in Known(w) :
          LET stop == Last(GraphPath(w, x)) IN
          /\ Gaps(w, x) \subseteq {stop}
          /\ \/ Ancestors(w, x) = TrueAncestors(x)
             \/ stop \in Gaps(w, x)
             \/ Parent(ByEntity(w, stop)) \in Processes \ Known(w)
    /\ \A x \in {Entity(e) : e \in ToSet(w)} :
          ChainGaps(w, x) \subseteq {Entity(Last(EntityChain(w, x)))}

\* The workspace of an alert shows the event it is about, and the hunt finds the
\* events of the timeline that have an indicator, counts each once and puts
\* first_seen no later than any: unless there are more than a page of them.
Matching(k, v) == CountEvents("sqlite", stored, [AnyEvent EXCEPT ![k] = v])
WorkspaceIsComplete ==
    \A i \in DOMAIN stored :
        LET page == Workspace(stored[i]) IN
        /\ \/ stored[i] \in ToSet(page.related_timeline)
           \/ Matching("process_entity_id", Entity(stored[i])) > PageLimit
        /\ page.summary.event_count = Cardinality(ToSet(page.events))
        /\ \A f \in ToSet(page.related_timeline) :
              f.remote_ip # Absent =>
                 \/ f \in ToSet(page.events) /\ page.summary.first_seen <= f.id
                 \/ Matching("indicator", f.remote_ip) > PageLimit

\* ClickHouse finds nothing that SQLite does not, and the same if the needle has no
\* wildcard, which ClickHouse takes for a letter.  PostgreSQL finds nothing that SQLite
\* does not if the needle has no backslash, and then the same if none of its letters has
\* another case (it is enough to look at the event stored last: the others have
\* been).  A page of related events has as many in every store, and two stores put
\* others on it only among events of one timestamp, or of one millisecond in
\* ClickHouse; but for parent_process_id SQLite answers for the process itself.
Fields(k) ==
    CASE k = "host" -> {Endpoint}
      [] k = "event_type" -> {"network_connection"}
      [] k = "process_entity_id" -> Processes
      [] k = "remote_ip" -> Remotes
Filters ==
    UNION {{[AnyEvent EXCEPT ![k] = v, ![t] = n] :
               v \in Fields(k) \cup {Absent}, n \in Needles \cup {Absent}} :
           k \in Exact, t \in {"process_name", "indicator"}}
Asks(f) == {f.process_name, f.indicator} \ {Absent}
NoWildcard == {n \in Needles : ToSet(Spelling[n]) \cap Wildcards = {}}
NoBackslash == {n \in Needles : Backslash \notin ToSet(Spelling[n])}
NoCase == {n \in Needles : \A c \in ToSet(Spelling[n]), d \in Chars :
                              Lower[d] = Lower[c] => d = c}
RelatedTo(store, kind, x) == {e \in ToSet(stored) : Related(store, e, kind, x)}

StoresAgree == stored # <<>> =>
    /\ \A f \in Filters :
          LET e == Last(stored)
              sqlite == Matches("sqlite", e, f)
              postgresql == Matches("postgresql", e, f)
              clickhouse == Matches("clickhouse", e, f)
          IN /\ clickhouse => sqlite
             /\ Asks(f) \subseteq NoWildcard /\ sqlite => clickhouse
             /\ Asks(f) \subseteq NoBackslash /\ postgresql => sqlite
             /\ Asks(f) \subseteq NoBackslash \cap NoCase /\ sqlite => postgresql
    /\ \A x \in Processes, store \in {"postgresql", "clickhouse"},
          kind \in {"process_entity_id", "parent_process_entity_id"} :
          \A page \in Pages(store, RelatedTo(store, kind, x), PageLimit),
             other \in Pages("sqlite", RelatedTo("sqlite", kind, x), PageLimit) :
             /\ Cardinality(page) = Cardinality(other)
             /\ \A e \in page \ other, d \in other \ page : Time(store, e) = Time(store, d)
    /\ \A p \in {PidOf[x] : x \in Processes} :
          ToSet(RelatedEvents("sqlite", stored, "parent_process_id", p, PageLimit))
             \subseteq {e \in ToSet(stored) : e.process_id = p}
=============================================================================
