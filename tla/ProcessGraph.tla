---------------------------- MODULE ProcessGraph -----------------------------
(***************************************************************************)
(* The process graph and the older process chain of an endpoint            *)
(* (open_edr_mdr_agent/api/app.py: _build_process_graph,                   *)
(* _append_process_gap, process_chain).  Operators on the window of events *)
(* that list_events gave, here in ascending order.                         *)
(*                                                                         *)
(* Definitions named X_Y are mutants: X as a plausible slip would have it. *)
(***************************************************************************)
EXTENDS EventQueries, FiniteSets

-----------------------------------------------------------------------------
Entity(e) == e.process_entity_id
Parent(e) == e.parent_process_entity_id

IsProcessEvent(e) == Entity(e) # Absent /\ e.event_type \in {"process_start", "process_stop"}
ProcessEvents(w) == Picked(w, {i \in DOMAIN w : IsProcessEvent(w[i])})
Known(w) == {Entity(e) : e \in ToSet(ProcessEvents(w))}

\* by_entity: the last start of a process, or its first event if none is there.
ByEntity(w, x) ==
    LET all == ProcessEvents(w)
        own == Picked(all, {i \in DOMAIN all : Entity(all[i]) = x})
        starts == Picked(own, {i \in DOMAIN own : own[i].event_type = "process_start"})
    IN IF starts = <<>> THEN own[1] ELSE starts[Len(starts)]

\* From x to parent to parent while the next one is known and new.
Path(x, known, up) ==
    LET climb[n \in 0..Cardinality(known)] ==
            IF n = 0 THEN <<x>>
            ELSE LET path == climb[n - 1]
                     p == up[path[Len(path)]]
                 IN IF p \in known \ ToSet(path) THEN Append(path, p) ELSE path
    IN climb[Cardinality(known)]

GraphPath(w, x) == Path(x, Known(w), [y \in Known(w) |-> Parent(ByEntity(w, y))])
Ancestors(w, x) == Tail(GraphPath(w, x))

\* visit_descendants, with its recursion as a stack of events still to visit;
\* x itself is not among those seen.  Each event is pushed at most twice.
Children(w, x) ==
    LET all == ProcessEvents(w)
    IN Picked(all, {i \in DOMAIN all : Parent(all[i]) = x})
Descendants_Repeats(w, x) ==
    LET below == Children(w, x)
    IN below \o FlattenSeq([i \in DOMAIN below |-> Children(w, Entity(below[i]))])
Descendants(w, x) ==
    LET visit[n \in 0..(2 * Len(w))] ==
            IF n = 0 THEN [stack |-> Children(w, x), out |-> <<>>]
            ELSE LET v == visit[n - 1]
                     child == Head(v.stack)
                 IN IF v.stack = <<>> THEN v
                    ELSE IF \E e \in ToSet(v.out) : Entity(e) = Entity(child)
                    THEN [v EXCEPT !.stack = Tail(@)]
                    ELSE [stack |-> Children(w, Entity(child)) \o Tail(v.stack),
                          out |-> Append(v.out, child)]
    IN visit[2 * Len(w)].out

\* _append_process_gap, for the process, its ancestors and its descendants.
HasGap(w, e) == e.missing_parent /\ Parent(e) \notin Known(w)
Gaps_OfTarget(w, x) == {Entity(e) : e \in {f \in {ByEntity(w, x)} : HasGap(w, f)}}
Gaps(w, x) ==
    {Entity(e) : e \in {f \in {ByEntity(w, y) : y \in ToSet(GraphPath(w, x))} \cup
                              ToSet(Descendants(w, x)) : HasGap(w, f)}}

Timeline(w, x) ==
    LET inGraph == {x} \cup {Entity(e) : e \in ToSet(Descendants(w, x))}
    IN Picked(w, {i \in DOMAIN w : Entity(w[i]) \in inGraph \/ Parent(w[i]) \in inGraph})

-----------------------------------------------------------------------------
\* process_chain: the oldest event with the identity, of whatever type; by
\* process_id, where an id may name two processes.
ChainOf(w, id, own, parent) ==
    LET known == {e[own] : e \in ToSet(w)} \ {Absent}
        oldest(y) == Picked(w, {i \in DOMAIN w : w[i][own] = y})[1]
        path == Path(id, known, [y \in known |-> oldest(y)[parent]])
    IN IF id \notin known THEN <<>> ELSE [i \in DOMAIN path |-> oldest(path[i])]

EntityChain(w, x) == ChainOf(w, x, "process_entity_id", "parent_process_entity_id")
PidChain(w, p) == ChainOf(w, p, "process_id", "parent_process_id")
ChainGaps(w, x) ==
    {Entity(e) : e \in {f \in ToSet(EntityChain(w, x)) :
        f.missing_parent /\ Parent(f) \notin {Entity(g) : g \in ToSet(w)} \ {Absent}}}
=============================================================================
