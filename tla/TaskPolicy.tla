----------------------------- MODULE TaskPolicy ------------------------------
(***************************************************************************)
(* Which tasks the control plane queues and which the agent runs: the      *)
(* catalogue and the schemas of open_edr_mdr_agent/api/task_catalog.py     *)
(* (used by app.py: create_task), and the agent's own table and argument   *)
(* checks (agent/internal/tasks).  The two are kept in step by hand.       *)
(*                                                                         *)
(* What happens to a queued row is in TaskLifecycle.  A text is "", blank, *)
(* a word of some schema or another text; what the endpoint's files and    *)
(* processes make of a task is left open.                                  *)
(*                                                                         *)
(* Definitions named X_Y are mutants: X as a plausible slip would have it. *)
(***************************************************************************)
EXTENDS Integers

VARIABLE task   \* the row of the task asked for, or NoTask

-----------------------------------------------------------------------------
(* The catalogue.  Its numbers all have both bounds. *)

Text == [type |-> "string", required |-> FALSE]
OneOf(words) == [type |-> "string", required |-> FALSE, enum |-> words]
Flag == [type |-> "boolean", required |-> FALSE]
Number(a, b) == [type |-> "integer", required |-> FALSE, minimum |-> a, maximum |-> b]
Required(spec) == [spec EXCEPT !.required = TRUE]

NoArgs == [n \in {} |-> Text]
OnPath == [path |-> Required(Text)]
MaxPid == 2147483647
OnPid == [pid |-> Required(Number(1, MaxPid))]
Copy(bytes) ==
    [path |-> Required(Text), max_bytes |-> Required(Number(1, bytes)),
     reason |-> Required(Text), case_id |-> Required(Text)]

Reads(risk, args) ==
    [risk |-> risk, destructive |-> FALSE, explicit |-> FALSE, args |-> args]
Responds(args) == [risk |-> "high", destructive |-> TRUE, explicit |-> TRUE, args |-> args]

TASK_CATALOG ==
    [inventory |-> Reads("low", NoArgs), process_list |-> Reads("low", NoArgs),
     network_connections |-> Reads("low", NoArgs), service_list |-> Reads("low", NoArgs),
     scheduled_tasks |-> Reads("low", NoArgs), agent_identity |-> Reads("low", NoArgs),
     listening_ports |-> Reads("low", NoArgs), autoruns_collect |-> Reads("low", NoArgs),
     windows_event_logs |-> Reads("low",
         [profile |-> OneOf({"powershell", "auth", "service", "task"}),
          max_events |-> Number(1, 100)]),
     file_exists |-> Reads("low", OnPath), file_hash |-> Reads("low", OnPath),
     list_directory |-> Reads("low",
         [path |-> Required(Text), max_entries |-> Number(1, 500)]),
     read_file_chunk |-> Reads("medium",
         [path |-> Required(Text), max_bytes |-> Required(Number(1, 65536)),
          reason |-> Required(Text), case_id |-> Required(Text),
          offset |-> Number(0, 104857600)]),
     copy_file |-> Reads("medium",
         [source_path |-> Required(Text), destination_path |-> Required(Text)]),
     registry_query |-> Reads("low", [key |-> Required(Text), recursive |-> Flag]),
     process_tree |-> Reads("low", OnPid), process_detail |-> Reads("low", OnPid),
     collect_file |-> Reads("medium", Copy(10485760)),
     quarantine_file |-> Responds(
         [source_path |-> Required(Text), quarantine_dir |-> Required(Text)]),
     delete_file |-> Responds([path |-> Required(Text), confirm_sha256 |-> Required(Text)]),
     kill_process |-> Responds(OnPid),
     service_control |-> Responds(
         [service_name |-> Required(Text),
          action |-> Required(OneOf({"status", "start", "stop"}))])]

\* catalog_for_response_mode("read_only"): what the analyst is offered.
Offered ==
    {t \in DOMAIN TASK_CATALOG : /\ ~TASK_CATALOG[t].destructive
                                 /\ TASK_CATALOG[t].risk \in {"low", "medium"}
                                 /\ t # "copy_file"}

\* read_only_policy_block: why a task is not queued, or "none".
PolicyBlock_NoCopy(t) ==
    IF t \notin DOMAIN TASK_CATALOG THEN "task_not_allowlisted"
    ELSE IF TASK_CATALOG[t].destructive THEN "destructive_task_blocked"
    ELSE IF TASK_CATALOG[t].explicit THEN "mutating_task_blocked"
    ELSE "none"
PolicyBlock(t) ==
    IF t \notin DOMAIN TASK_CATALOG THEN "task_not_allowlisted"
    ELSE IF TASK_CATALOG[t].destructive THEN "destructive_task_blocked"
    ELSE IF TASK_CATALOG[t].explicit \/ t = "copy_file" THEN "mutating_task_blocked"
    ELSE "none"

Risk(t) == IF t \in DOMAIN TASK_CATALOG THEN TASK_CATALOG[t].risk ELSE "unknown"

-----------------------------------------------------------------------------
(* Values, which name their JSON type, and ArgumentSpec.validate *)
Empty == ""
Space == " "

Null == [null |-> TRUE]
Str(text) == [text |-> text]
Num(number) == [number |-> number]
Bool(flag) == [flag |-> flag]

Allows(spec, v) ==
    CASE spec.type = "string" ->
            "text" \in DOMAIN v /\ ("enum" \in DOMAIN spec => v.text \in spec.enum)
      [] spec.type = "boolean" -> "flag" \in DOMAIN v
      [] spec.type = "integer" ->
            "number" \in DOMAIN v /\ v.number \in spec.minimum..spec.maximum

\* TaskDefinition.validate_args
ValidArgs(t, args) ==
    LET schema == TASK_CATALOG[t].args IN
    /\ DOMAIN args \subseteq DOMAIN schema
    /\ \A name \in DOMAIN schema :
          schema[name].required => name \in DOMAIN args /\ args[name] \notin {Null, Str(Empty)}
    /\ \A name \in DOMAIN args : Allows(schema[name], args[name])

-----------------------------------------------------------------------------
(* The agent: Catalog, Execute, and what the tasks do with their arguments *)
Meta(t) ==
    [risk |-> CASE t \in {"read_file_chunk", "copy_file", "collect_file"} -> "medium"
                [] t \in {"quarantine_file", "delete_file", "kill_process",
                          "service_control"} -> "high"
                [] OTHER -> "low",
     destructive |-> t \in {"quarantine_file", "delete_file", "kill_process",
                            "service_control"},
     mutating |-> t = "copy_file"]
AgentKnows ==
    {"inventory", "process_list", "process_detail", "process_tree", "network_connections",
     "service_list", "scheduled_tasks", "windows_event_logs", "file_exists", "file_hash",
     "agent_identity", "autoruns_collect", "registry_query", "listening_ports",
     "list_directory", "read_file_chunk", "copy_file", "collect_file", "quarantine_file",
     "delete_file", "kill_process", "service_control"}

AgentBlock(t) ==
    IF t \notin AgentKnows THEN "task_not_allowlisted"
    ELSE IF Meta(t).destructive THEN "destructive_task_blocked"
    ELSE IF Meta(t).mutating THEN "mutating_task_blocked"
    ELSE "none"

\* args["path"].(string), intArg and boolArg: anything but a text, a number or
\* a flag counts as left out.
TextArg(args, name) ==
    IF name \in DOMAIN args /\ "text" \in DOMAIN args[name] THEN args[name].text ELSE Empty
IntArg(args, name, fallback) ==
    IF name \in DOMAIN args /\ "number" \in DOMAIN args[name]
    THEN args[name].number ELSE fallback
Blank == {Empty, Space}

\* The arguments a task fails for, and those it is blocked for (blockedEvidence
\* and the unknown profile of an event log).
Fails(t, args) ==
    {n \in {"path"} : /\ t \in {"file_exists", "file_hash", "list_directory",
                                "read_file_chunk", "collect_file"}
                      /\ TextArg(args, n) = Empty} \cup
    {n \in {"key"} : t = "registry_query" /\ TextArg(args, n) = Empty} \cup
    {n \in {"pid"} : t \in {"process_tree", "process_detail"} /\ IntArg(args, n, 0) <= 0}
Blocks(t, args) ==
    {n \in {"reason", "case_id"} :
        t \in {"read_file_chunk", "collect_file"} /\ TextArg(args, n) \in Blank} \cup
    {n \in {"max_bytes"} :
        /\ t \in {"read_file_chunk", "collect_file"}
        /\ IntArg(args, n, 0) \notin 1..(IF t = "collect_file" THEN 10485760 ELSE 65536)} \cup
    {n \in {"profile"} : /\ t = "windows_event_logs"
                         /\ TextArg(args, n) \notin {Empty, "powershell", "auth", "service", "task"}}

\* Arguments that are replaced without a word: counts out of their range, and
\* values of another type.
Replaces(t, args) ==
    {n \in {"max_entries"} : t = "list_directory" /\ IntArg(args, n, 100) \notin 1..500} \cup
    {n \in {"max_events"} : t = "windows_event_logs" /\ IntArg(args, n, 25) \notin 1..100} \cup
    {n \in DOMAIN args \cap {"max_entries", "max_events", "offset"} :
        "number" \notin DOMAIN args[n]} \cup
    {n \in DOMAIN args \cap {"recursive"} : "flag" \notin DOMAIN args[n]} \cup
    {n \in DOMAIN args \cap {"profile"} : TextArg(args, n) = Empty}

-----------------------------------------------------------------------------
(* Requests: valid arguments, of which one is left out or has any value, or  *)
(* with one more that no schema has.  (No number exceeds a process id's      *)
(* maximum, which is TLC's too.)                                             *)
NoTask == [status |-> "none"]
Good(spec) ==
    CASE spec.type = "boolean" -> Bool(TRUE)
      [] spec.type = "integer" -> Num(spec.maximum)
      [] OTHER -> Str(IF "enum" \in DOMAIN spec THEN CHOOSE w \in spec.enum : TRUE ELSE "text")
Values(spec) ==
    {Null, Bool(TRUE), Num(0), Str(Empty), Str(Space), Str("text")} \cup
    (IF spec.type = "integer"
     THEN {Num(n) : n \in {spec.minimum - 1, spec.minimum, spec.maximum} \cup
                          {m + 1 : m \in {spec.maximum} \ {MaxPid}}}
     ELSE {}) \cup
    (IF "enum" \in DOMAIN spec THEN {Str(w) : w \in spec.enum} ELSE {})

Types == DOMAIN TASK_CATALOG \cup {"isolate_host"}
Requests(t) ==
    LET schema == IF t \in DOMAIN TASK_CATALOG THEN TASK_CATALOG[t].args ELSE NoArgs
        good == [n \in DOMAIN schema |-> Good(schema[n])]
    IN {good} \cup
       (UNION {{[good EXCEPT ![n] = v] : v \in Values(schema[n])} : n \in DOMAIN schema}) \cup
       {[m \in DOMAIN schema \ {n} |-> good[m]] : n \in DOMAIN schema} \cup
       {[m \in DOMAIN schema \cup {"force"} |->
            IF m = "force" THEN Bool(TRUE) ELSE good[m]]}

-----------------------------------------------------------------------------
PolicyInit == task = NoTask

\* create_task: blocked by the policy (its arguments are not looked at), refused
\* with 400 and no row, or queued.
CreateTask ==
    /\ task = NoTask
    /\ \E t \in Types : \E args \in Requests(t) :
          LET row == [type |-> t, args |-> args, risk |-> Risk(t), reason |-> PolicyBlock(t)] IN
          \/ /\ PolicyBlock(t) # "none"
             /\ task' = [status |-> "blocked_by_policy", by |-> "server", row |-> row]
          \/ /\ PolicyBlock(t) = "none" /\ ValidArgs(t, args)
             /\ task' = [status |-> "queued", by |-> "server", row |-> row]
          \/ /\ PolicyBlock(t) = "none" /\ ~ValidArgs(t, args)
             /\ UNCHANGED task

\* executeAndReport
Execute ==
    /\ task.status = "queued"
    /\ LET t == task.row.type
           args == task.row.args
       IN \E status \in
            IF AgentBlock(t) # "none" THEN {"blocked_by_policy"}
            ELSE IF Fails(t, args) # {} THEN {"failed"}
            ELSE IF Blocks(t, args) # {} THEN {"blocked_by_policy"}
            ELSE {"succeeded", "failed"} \cup
                 {s \in {"blocked_by_policy"} : t = "collect_file"} :   \* a larger file
          task' = [task EXCEPT !.status = status, !.by = "agent"]

PolicyNext == CreateTask \/ Execute
PolicySpec == PolicyInit /\ [][PolicyNext]_task

-----------------------------------------------------------------------------
PolicyTypeOK ==
    task.status \in {"none", "queued", "blocked_by_policy", "succeeded", "failed"}

\* The two tables agree.  What the server blocks the agent would block for the
\* same reason; what it queues is what the analyst is offered, at the risk the
\* agent has for it, and the agent takes the arguments as they are: it replaces
\* none, fails for none and blocks none, but for a reason or a case_id that is
\* blank without being empty, which the server lets through.
TablesAgree ==
    task # NoTask =>
        LET t == task.row.type
            args == task.row.args
        IN /\ task.row.reason = AgentBlock(t)
           /\ task.row.reason = "none" <=> t \in Offered
           /\ t \in AgentKnows => task.row.risk = Meta(t).risk
           /\ task.row.reason = "none" =>
                 /\ Fails(t, args) = {} /\ Replaces(t, args) = {}
                 /\ \A n \in Blocks(t, args) :
                       n \in {"reason", "case_id"} /\ args[n] = Str(Space)
           /\ task.status = "blocked_by_policy" /\ task.by = "agent" =>
                 Blocks(t, args) # {} \/ t = "collect_file"
=============================================================================
