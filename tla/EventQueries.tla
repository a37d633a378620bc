---------------------------- MODULE EventQueries -----------------------------
(***************************************************************************)
(* What the three event stores answer to the same question                 *)
(* (open_edr_mdr_agent/api/store.py: _event_query, list_events,            *)
(* count_events, related_events; postgres_store.py: the same SQL through   *)
(* _translate_sql; clickhouse_store.py: _event_where and its callers).     *)
(*                                                                         *)
(* Texts and needles are values with a spelling, a sequence of characters: *)
(* LIKE and positionCaseInsensitive differ in single characters.           *)
(* remote_ip stands for domain and hash_sha256 as well, and process_name   *)
(* for user: the stores treat them alike.                                  *)
(*                                                                         *)
(* Definitions named X_Y are mutants: X as a plausible slip would have it. *)
(***************************************************************************)
EXTENDS Naturals, Sequences, FiniteSets, FiniteSetsExt, SequencesExt, Selection

CONSTANTS
    Absent,            \* null or empty, in an event and in a query
    Texts, Needles,
    Chars, Spelling,   \* characters, and what texts and needles are made of
    Lower,             \* [Chars -> Chars], one for upper and lower case
    Timestamp          \* of events by their id, in microseconds

Wildcards == {"%", "_"}
Backslash == "\\"
Escaped == {"\\", "\""}

ASSUME QueryAssumption ==
    /\ Absent \notin Texts \cup Needles
    /\ Spelling \in [Texts \cup Needles -> Seq(Chars)] /\ Backslash \in Chars
    /\ Lower \in [Chars -> Chars]
    /\ \A i \in DOMAIN Timestamp : Timestamp[i] \in Nat

-----------------------------------------------------------------------------
\* s LIKE '%v%', external code: the pattern is laid along the text, its k-th
\* character from at[k - 1] to at[k].  A backslash escapes what follows it in
\* PostgreSQL, the % that is put behind v too, and is a character in SQLite, which
\* ignores case.
Escapes(store, p) ==
    {k \in DOMAIN p : store = "postgresql" /\
        Cardinality({j \in 1..k : \A i \in j..k : p[i] = Backslash}) % 2 = 1}
Literals(store, p) ==
    LET escapes == Escapes(store, p)
    IN {k \in DOMAIN p : p[k] \notin Wildcards \/ k - 1 \in escapes} \ escapes
Same(store, c, d) == IF store = "sqlite" THEN Lower[c] = Lower[d] ELSE c = d

Laid(store, s, p, at) ==
    /\ at[0] = 0 /\ at[Len(p)] = Len(s)
    /\ \A k \in DOMAIN p :
          \/ k \in Escapes(store, p) /\ at[k] = at[k - 1]
          \/ /\ k \in Literals(store, p) /\ at[k] = at[k - 1] + 1
             /\ Same(store, s[at[k]], p[k])
          \/ /\ k \notin Escapes(store, p) \cup Literals(store, p) /\ at[k - 1] <= at[k]
             /\ p[k] = "_" => at[k] = at[k - 1] + 1
Like(store, s, v) ==
    LET p == <<"%">> \o v \o <<"%">>
    IN \E at \in [0..Len(p) -> 0..Len(s)] : Laid(store, s, p, at)

\* positionCaseInsensitive(s, v) > 0, external code.
Within(s, v) ==
    \E i \in 0..Len(s) : /\ i + Len(v) <= Len(s)
                         /\ \A k \in DOMAIN v : Lower[s[i + k]] = Lower[v[k]]

\* model_dump_json: a backslash is put before some characters.
JsonText(s) ==
    LET twice == [k \in 1..(2 * Len(s)) |-> IF k % 2 = 0 THEN s[k \div 2] ELSE Backslash]
    IN Picked(twice, {k \in DOMAIN twice : k % 2 = 0 \/ s[(k + 1) \div 2] \in Escaped})

\* The texts that a needle is found in, in a column and in event_json.
Stores == {"sqlite", "postgresql", "clickhouse"}
Finds(store, s, v) == IF store = "clickhouse" THEN Within(s, v) ELSE Like(store, s, v)
InColumn ==
    [store \in Stores |-> [n \in Needles |->
        {t \in Texts : Finds(store, Spelling[t], Spelling[n])}]]
InJson ==
    [store \in Stores |-> [n \in Needles |->
        {t \in Texts : Finds(store, JsonText(Spelling[t]), Spelling[n])}]]

-----------------------------------------------------------------------------
Exact == {"host", "event_type", "process_entity_id", "remote_ip"}

\* Whether a text in the JSON of an event is one of those found.
InEvent == {"host", "process_entity_id", "remote_ip", "process_name"}
JsonHas(e, found) == \E k \in InEvent : e[k] \in found

HasNeedles(store, e, f) ==
    /\ f.process_name = Absent \/ e.process_name \in InColumn[store][f.process_name]
    /\ f.indicator = Absent \/ JsonHas(e, InJson[store][f.indicator])

\* _event_query and _event_where.
SqlMatches(store, e, f) ==
    /\ \A k \in Exact : f[k] = Absent \/ e[k] = f[k]
    /\ HasNeedles(store, e, f)

ClickHouseMatches_NoEntity(e, f) ==
    /\ \A k \in Exact \ {"process_entity_id"} : f[k] = Absent \/ e[k] = f[k]
    /\ HasNeedles("clickhouse", e, f)
ClickHouseMatches(e, f) ==
    /\ \A k \in Exact : f[k] = Absent \/ e[k] = f[k]
    /\ HasNeedles("clickhouse", e, f)

Matches(store, e, f) ==
    IF store = "clickhouse" THEN ClickHouseMatches(e, f) ELSE SqlMatches(store, e, f)

\* order by timestamp desc limit, of rows in the order of their timestamps: what
\* SQLite answers, with the later row first where two are equal.
Latest(s, limit) ==
    Reverse(SubSeq(s, IF Len(s) > limit THEN Len(s) - limit + 1 ELSE 1, Len(s)))

\* What a store may put on that page: rows with equal timestamps come in any order,
\* and ClickHouse keeps milliseconds of them.
Time(store, e) ==
    IF store = "clickhouse" THEN Timestamp[e.id] \div 1000 ELSE Timestamp[e.id]
Pages(store, found, limit) ==
    {page \in SUBSET found :
        /\ Cardinality(page) = Min({limit, Cardinality(found)})
        /\ \A e \in page, d \in found \ page : Time(store, d) <= Time(store, e)}

Answer(store, s, f) == Picked(s, {i \in DOMAIN s : Matches(store, s[i], f)})
ListEvents(store, s, f, limit) == Latest(Answer(store, s, f), limit)
CountEvents(store, s, f) == Len(Answer(store, s, f))

\* related_events: the column an entity type is looked up in.  In the SQL stores,
\* that of parent_process_id is process_id; any other type has no answer.
Column(store, kind) ==
    IF kind = "parent_process_id" /\ store # "clickhouse" THEN "process_id" ELSE kind

Related(store, e, kind, value) ==
    CASE kind = "file_path" -> JsonHas(e, InJson[store][value])
      [] kind = "process_name" -> e.process_name \in InColumn[store][value]
      [] kind \in {"host", "process_id", "parent_process_id", "process_entity_id",
                   "parent_process_entity_id", "remote_ip"} -> e[Column(store, kind)] = value
      [] OTHER -> FALSE
RelatedEvents(store, s, kind, value, limit) ==
    Latest(Picked(s, {i \in DOMAIN s : Related(store, s[i], kind, value)}), limit)
=============================================================================
