------------------------------- MODULE Outbox -------------------------------
(***************************************************************************)
(* What the agent's local spool promises, with no file, no metadata and no *)
(* program counter: a store-and-forward outbox.                            *)
(*                                                                         *)
(* A record that was accepted is pending until the backend has processed   *)
(* it or the limits pushed it out.  A limit never pushes a record out in   *)
(* favour of one that is worth less: task results outrank telemetry, and a *)
(* newer record outranks an older one of the same kind.  A record may be   *)
(* delivered more than once, and it leaves the outbox only after it was    *)
(* delivered.                                                              *)
(*                                                                         *)
(* Spool.tla is the detailed specification; it implements this one.        *)
(***************************************************************************)
EXTENDS Integers

CONSTANT Records  \* the records the agent may hand to the outbox

VARIABLES accepted,   \* records the outbox took responsibility for
          pending,    \* those still waiting in it
          delivered,  \* those the backend has processed
          dropped     \* those the limits pushed out

outboxVars == <<accepted, pending, delivered, dropped>>

\* k is worth keeping rather than d
Outranks(k, d) ==
    \/ k.kind = "task_result" /\ d.kind = "events"
    \/ k.kind = d.kind /\ d.id < k.id

Init ==
    /\ accepted = {}
    /\ pending = {}
    /\ delivered = {}
    /\ dropped = {}

\* The outbox takes r and lets some records D go to make room.
Accept(r) ==
    /\ r \notin accepted
    /\ accepted' = accepted \cup {r}
    /\ \E D \in SUBSET (pending \cup {r}) :
          /\ pending' = (pending \cup {r}) \ D
          /\ dropped' = dropped \cup D
          /\ \A k \in pending', d \in D : Outranks(k, d)
    /\ UNCHANGED delivered

\* The backend processes a pending record, perhaps not for the first time.
Deliver(r) ==
    /\ r \in pending
    /\ delivered' = delivered \cup {r}
    /\ UNCHANGED <<accepted, pending, dropped>>

\* The outbox forgets delivered records.
Retire ==
    /\ pending' \subseteq pending
    /\ pending \ pending' \subseteq delivered
    /\ UNCHANGED <<accepted, delivered, dropped>>

Next ==
    \/ \E r \in Records : Accept(r)
    \/ \E r \in pending : Deliver(r)
    \/ Retire

Spec == Init /\ [][Next]_outboxVars

=============================================================================
