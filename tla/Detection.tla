----------------------------- MODULE Detection -------------------------------
(***************************************************************************)
(* What the backend makes of one event: the built-in rules and the custom  *)
(* rules of the rule file (open_edr_mdr_agent/core/detection.py, rules.py).*)
(*                                                                         *)
(* An event is a record of what the rules can tell apart: its type, which  *)
(* class of program it names, which suspicious words its command line or   *)
(* script block has, the log it came from, whether an indicator is known   *)
(* bad, and, for every field a custom rule may name, how its value relates *)
(* to the literal of the rule.                                             *)
(*                                                                         *)
(* Definitions named X_Y are mutants: X as a plausible slip would have it. *)
(***************************************************************************)
EXTENDS Naturals, Sequences, FiniteSetsExt

\* How a field relates to the literal a rule compares it with.  The value may
\* be missing or empty, and the comparison may hold only if case is ignored.
Relations == {"absent", "empty", "exact", "fold", "inside", "inside_fold", "other"}

\* The relations each operator accepts; a regular expression is one that may
\* match or be malformed.  Any other operator raises when it is evaluated.
Accepts == [equals    |-> {"exact"},
            iequals   |-> {"exact", "fold"},
            contains  |-> {"exact", "inside"},
            icontains |-> {"exact", "fold", "inside", "inside_fold"},
            regex     |-> {"exact", "inside"}]

\* _match: "yes", "no", or "raise".
Match(fields, cond) ==
    LET actual == fields[cond.field] IN
    CASE cond.op = "exists" ->
             IF actual \in {"absent", "empty"} THEN "no" ELSE "yes"
      [] cond.op # "exists" /\ actual = "absent" -> "no"
      [] cond.op \in DOMAIN Accepts /\ actual # "absent" ->
             IF cond.broken THEN "raise"
             ELSE IF actual \in Accepts[cond.op] THEN "yes" ELSE "no"
      [] OTHER -> "raise"

\* detect_with_rules, one rule: all() stops at the first condition that fails,
\* so an operator that raises is only reached past conditions that hold.
RuleVerdict(event, rule) ==
    LET stops == {i \in DOMAIN rule.conditions :
                     Match(event.fields, rule.conditions[i]) # "yes"}
    IN CASE rule.type # "any" /\ rule.type # event.type -> "no"
         [] (rule.type = "any" \/ rule.type = event.type) /\ stops = {} -> "yes"
         [] OTHER -> Match(event.fields, rule.conditions[Min(stops)])

\* _is_windows_event_log and _ioc_hit are the fields log and bad of an event.
Scripts == {"powershell", "script"}     \* SCRIPT_NAMES; powershell.exe and pwsh.exe

BuiltinRules == {"encoded_command", "service_or_task_change", "interpreter_network",
                 "scriptblock", "service_installed", "scheduled_task", "ioc"}

\* detect_event, the built-in rules.
Builtin(event) ==
    {r \in BuiltinRules :
       \/ /\ r = "encoded_command"
          /\ event.type = "process_start" /\ event.process = "powershell"
          /\ "encoded" \in event.words
       \/ /\ r = "service_or_task_change"
          /\ event.type = "process_start" /\ "persistence" \in event.words
       \/ /\ r = "interpreter_network"
          /\ event.type = "network_connection" /\ event.process \in Scripts
       \/ r = "scriptblock" /\ event.log = "powershell" /\ "download" \in event.words
       \/ r = "service_installed" /\ event.log = "service"
       \/ r = "scheduled_task" /\ event.log = "task"
       \/ r = "ioc" /\ event.bad}

\* detect_many: one rule that raises on one event takes the whole batch down.
\* rules is the set of custom rules, each a record with an id, a type and a
\* sequence of conditions.
Raises(event, rules) == \E r \in rules : RuleVerdict(event, r) = "raise"
Detected(event, rules) ==
    Builtin(event) \cup {r.id : r \in {r \in rules : RuleVerdict(event, r) = "yes"}}
=============================================================================
