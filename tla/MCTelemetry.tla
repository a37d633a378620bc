------------------------------ MODULE MCTelemetry ----------------------------
(***************************************************************************)
(* Two batches: one with a suspicious network event without a process      *)
(* identity and a harmless process start, one with an encoded command.     *)
(* The custom rule names an operator that does not exist, and reaches it   *)
(* only on the encoded command.  On the endpoint, two process ids, which    *)
(* nothing tells apart but equality, and up to three processes.            *)
(***************************************************************************)
EXTENDS Telemetry

CONSTANTS dns, start, encoded

MCObservation == {dns, start, encoded}
Fields(user) == [user |-> user, domain |-> "absent"]
MCShape ==
    (dns     :> [type |-> "dns_query", process |-> "other", words |-> {},
                 log |-> "none", bad |-> TRUE, identified |-> FALSE,
                 fields |-> Fields("absent")]) @@
    (start   :> [type |-> "process_start", process |-> "other", words |-> {},
                 log |-> "none", bad |-> FALSE, identified |-> TRUE,
                 fields |-> Fields("other")]) @@
    (encoded :> [type |-> "process_start", process |-> "powershell",
                 words |-> {"encoded"}, log |-> "none", bad |-> FALSE,
                 identified |-> TRUE, fields |-> Fields("fold")])
MCBatches == {{dns, start}, {encoded}}

Poison == [id |-> "poison", type |-> "process_start",
           conditions |-> <<[field |-> "user", op |-> "iequals", broken |-> FALSE],
                            [field |-> "user", op |-> "startswith", broken |-> FALSE]>>]
MCRuleFiles == {{}, {Poison}}
=============================================================================
