-------------------------- MODULE CredentialProofs ---------------------------
(***************************************************************************)
(* Theorems about the credential's life, for any number of threads, uses   *)
(* of the token, rotations, fresh set-ups and faults.                      *)
(*                                                                         *)
(* The inductive invariant IInv adds to the properties what ties the three *)
(* places a credential is in to one another: the rows, the requests on the *)
(* threads that have read them, and the endpoint that waits for an answer. *)
(***************************************************************************)
EXTENDS Credential, SequenceTheorems, FiniteSetTheorems, TLAPS

\* The types, by the part of the state.
Handler == [op : {"idle", "enroll", "heartbeat", "deliver", "activate",
                  "rotate"},
            id : Nat, secret : Nat, version : Nat, awaited : BOOLEAN]

RowsOK ==
    /\ bootstrap \in [uses : Nat, valid : BOOLEAN]
    /\ agents \in Seq(Agent)
    /\ nextSecret \in Nat \ {0}

HandlersOK == worker \in [Workers -> Handler]

EndpointOK ==
    /\ pc \in {"start", "stopped", "enrollWait", "saveEnrolled", "scrub",
               "cycle", "heartbeatWait", "saveRotated"}
    /\ mem \in State \cup {NoState} /\ disk \in State \cup {NoState, Torn}
    /\ config \in {"token", "scrubbed", Torn}

HistoryOK ==
    /\ raced \in BOOLEAN /\ forgotten \in Nat
    /\ rotations \in Nat /\ reprovisions \in Nat /\ faults \in Nat

Types == RowsOK /\ HandlersOK /\ EndpointOK /\ HistoryOK

\* The operations that carry a request of the endpoint's identity.
Beating(w) == worker[w].op \in {"heartbeat", "deliver", "activate"}

\* Identities are those the backend gave.
EndpointKnown ==
    /\ pc \notin {"start", "stopped", "enrollWait"} =>
          mem \in State /\ mem.id \in Ids
    /\ disk \in State => disk.id \in Ids

HandlersKnown ==
    \A w \in Workers : Beating(w) \/ Busy(w, "rotate") => worker[w].id \in Ids

Known == EndpointKnown /\ HandlersKnown

\* What is stored as a credential, or about to be, is one.
Carried ==
    /\ \A w \in Workers : Busy(w, "activate") \/ Busy(w, "rotate") =>
          worker[w].secret # 0 /\ worker[w].version # 0
    /\ \A i \in Ids : agents[i].pending # 0 => agents[i].pendingVersion # 0

\* The endpoint waits for one answer, to the request its process is in.
Awaiting ==
    /\ \A w \in Workers : worker[w].awaited =>
          \/ Busy(w, "enroll") /\ pc = "enrollWait"
          \/ Beating(w) /\ pc = "heartbeatWait" /\ worker[w].id = mem.id
    /\ \A v, w \in Workers : worker[v].awaited /\ worker[w].awaited => v = w

\* Enrollments under way count as identities, the one the endpoint has or is
\* about to have as the first.
Enrolls == {w \in Workers : Busy(w, "enroll")}
HasIdentity == Loads \/ pc \in {"enrollWait", "saveEnrolled"}
Minted ==
    Len(agents) + Cardinality(Enrolls) <=
        forgotten + (IF HasIdentity THEN 1 ELSE 0)

\* The disk follows the memory.
Kept ==
    /\ config = "scrubbed" \/ pc = "scrub" => disk # NoState
    /\ pc \in {"scrub", "cycle", "heartbeatWait"} /\ faults = 0 => disk = mem

\* While nothing went wrong, the endpoint has the credential of its identity,
\* what is pending is one version ahead, and so is what a heartbeat is
\* delivering.
Undisturbed == faults = 0 /\ ~raced

EndpointInStep ==
    /\ pc \in {"start", "stopped"} => ~Loads
    /\ pc \notin {"start", "stopped", "enrollWait"} =>
          /\ agents[mem.id].secret = mem.secret
          /\ agents[mem.id].version = mem.version

RowsInStep ==
    \A i \in Ids : agents[i].pending # 0 =>
                      agents[i].pendingVersion = agents[i].version + 1

HandlersInStep ==
    \A w \in Workers :
        /\ Beating(w) => worker[w].awaited
        /\ Busy(w, "activate") =>
              worker[w].version = agents[worker[w].id].version + 1

InStep == Undisturbed => EndpointInStep /\ RowsInStep /\ HandlersInStep

IInv == Types /\ Known /\ Carried /\ Awaiting /\ Minted /\ Kept /\ InStep

-----------------------------------------------------------------------------
\* Rows and handlers

\* Overwriting one row leaves a table, and the other rows as they were.
LEMMA RowChange ==
    ASSUME NEW rows \in Seq(Agent), NEW i \in 1..Len(rows), NEW a \in Agent
    PROVE  /\ [rows EXCEPT ![i] = a] \in Seq(Agent)
           /\ Len([rows EXCEPT ![i] = a]) = Len(rows)
           /\ \A j \in 1..Len(rows) :
                 [rows EXCEPT ![i] = a][j] = IF j = i THEN a ELSE rows[j]
BY ExceptSeq

\* A row and a handler have their types.
LEMMA RowTyped ==
    ASSUME Types, NEW i \in Ids
    PROVE  agents[i] \in Agent
BY ElementOfSeq DEF Types, RowsOK, Ids

\* A handler, and each of its fields.
LEMMA HandlerTyped ==
    ASSUME Types, NEW w \in Workers
    PROVE  /\ worker[w] \in Handler
           /\ worker[w].id \in Nat /\ worker[w].secret \in Nat
           /\ worker[w].version \in Nat /\ worker[w].awaited \in BOOLEAN
<1>1. worker[w] \in Handler
  BY DEF Types, HandlersOK
<1>2. QED
  BY <1>1 DEF Handler

\* A new identity is added at the end.
LEMMA EnrollShape ==
    ASSUME Types, NEW w \in Workers, EnrollCommit(w)
    PROVE  /\ agents' \in Seq(Agent) /\ Len(agents') = Len(agents) + 1
           /\ Ids \subseteq Ids' /\ Len(agents) + 1 \in Ids'
           /\ \A j \in Ids : agents'[j] = agents[j]
           /\ agents'[Len(agents) + 1].secret = nextSecret
           /\ agents'[Len(agents) + 1].version = 1
           /\ agents'[Len(agents) + 1].pending = 0
<1> DEFINE a == [secret |-> nextSecret, version |-> 1, pending |-> 0,
                 pendingVersion |-> 0, revoked |-> FALSE, status |-> "online"]
<1>1. a \in Agent
  BY DEF Types, RowsOK, Agent, Secret
<1>2. agents \in Seq(Agent) /\ Len(agents) \in Nat
  BY LenProperties DEF Types, RowsOK
<1>3. agents' = Append(agents, a)
  BY DEF EnrollCommit
<1>4. /\ agents' \in Seq(Agent) /\ Len(agents') = Len(agents) + 1
      /\ \A j \in 1..Len(agents) : agents'[j] = agents[j]
      /\ agents'[Len(agents) + 1] = a
  BY <1>1, <1>2, <1>3, AppendProperties
<1>5. QED
  BY <1>2, <1>4 DEF Ids

\* What rotate_agent_credential keeps between its SELECT and its UPDATE, and
\* activate_pending_agent_credential between its two.
RotateRequest(i, s, v) ==
    [IdleWorker EXCEPT !.op = "rotate", !.id = i, !.secret = s, !.version = v]
ActivateRequest(h, s, v) ==
    [h EXCEPT !.op = "activate", !.secret = s, !.version = v]

\* Both are handlers with the fields they were given.
LEMMA RotateRequestTyped ==
    ASSUME NEW i \in Nat, NEW s \in Nat, NEW v \in Nat
    PROVE  LET h == RotateRequest(i, s, v)
           IN  /\ h \in Handler /\ h.op = "rotate" /\ h.id = i
               /\ h.secret = s /\ h.version = v /\ ~h.awaited
<1>1. IdleWorker \in Handler /\ ~IdleWorker.awaited
  BY DEF IdleWorker, Handler
<1>2. \A k \in Handler : /\ [k EXCEPT !.op = "rotate"] \in Handler
                         /\ [k EXCEPT !.op = "rotate"].op = "rotate"
                         /\ [k EXCEPT !.op = "rotate"].awaited = k.awaited
  BY DEF Handler
<1>3. QED
  BY <1>1, <1>2 DEF Handler, RotateRequest

\* An activation keeps the heartbeat it belongs to.
LEMMA ActivateRequestTyped ==
    ASSUME NEW k \in Handler, NEW s \in Nat, NEW v \in Nat
    PROVE  LET h == ActivateRequest(k, s, v)
           IN  /\ h \in Handler /\ h.op = "activate" /\ h.id = k.id
               /\ h.secret = s /\ h.version = v /\ h.awaited = k.awaited
BY DEF Handler, ActivateRequest

\* A heartbeat changes a status only ...
LEMMA HeartbeatShape ==
    ASSUME Types, Known, NEW w \in Workers, UpdateHeartbeat(w)
    PROVE  /\ agents' \in Seq(Agent) /\ Len(agents') = Len(agents)
           /\ Ids' = Ids
           /\ \A j \in Ids :
                 /\ agents'[j].secret = agents[j].secret
                 /\ agents'[j].version = agents[j].version
                 /\ agents'[j].pending = agents[j].pending
                 /\ agents'[j].pendingVersion = agents[j].pendingVersion
<1> DEFINE i == worker[w].id
           a == [agents[i] EXCEPT !.status = "online"]
<1>1. i \in Ids /\ agents[i] \in Agent /\ agents \in Seq(Agent)
  BY RowTyped
  DEF Known, HandlersKnown, Types, RowsOK, UpdateHeartbeat, Beating, Busy
<1>2. a \in Agent
  BY <1>1, HandlerTyped DEF Agent, Secret
<1>3. agents' = [agents EXCEPT ![i] = a]
  BY <1>1 DEF UpdateHeartbeat
<1>4. /\ agents' \in Seq(Agent) /\ Len(agents') = Len(agents)
      /\ \A j \in 1..Len(agents) : agents'[j] = IF j = i THEN a ELSE agents[j]
  BY <1>1, <1>2, <1>3, RowChange DEF Ids
<1>5. \A j \in Ids : agents[j] \in Agent
  BY RowTyped
<1>6. Ids' = Ids
  BY <1>4 DEF Ids
<1>7. ASSUME NEW j \in Ids
      PROVE  /\ agents'[j].secret = agents[j].secret
             /\ agents'[j].version = agents[j].version
             /\ agents'[j].pending = agents[j].pending
             /\ agents'[j].pendingVersion = agents[j].pendingVersion
  <2>1. agents'[j] = (IF j = i THEN a ELSE agents[j]) /\ agents[j] \in Agent
    BY <1>4, <1>5 DEF Ids
  <2>2. QED
    BY <1>1, <2>1 DEF Agent
<1>8. QED
  BY <1>4, <1>6, <1>7

\* ... as revocation does, beside the mark it leaves, ...
LEMMA RevokeShape ==
    ASSUME Types, NEW k \in Ids, Revoke(k)
    PROVE  /\ agents' \in Seq(Agent) /\ Len(agents') = Len(agents)
           /\ Ids' = Ids
           /\ \A j \in Ids :
                 /\ agents'[j].secret = agents[j].secret
                 /\ agents'[j].version = agents[j].version
                 /\ agents'[j].pending = agents[j].pending
                 /\ agents'[j].pendingVersion = agents[j].pendingVersion
<1> DEFINE i == k
           a == [agents[i] EXCEPT !.revoked = TRUE, !.status = "revoked"]
<1>1. i \in Ids /\ agents[i] \in Agent /\ agents \in Seq(Agent)
  BY RowTyped DEF HandlersKnown, Types, RowsOK
<1>2. a \in Agent
  BY <1>1, HandlerTyped DEF Agent, Secret
<1>3. agents' = [agents EXCEPT ![i] = a]
  BY <1>1 DEF Revoke
<1>4. /\ agents' \in Seq(Agent) /\ Len(agents') = Len(agents)
      /\ \A j \in 1..Len(agents) : agents'[j] = IF j = i THEN a ELSE agents[j]
  BY <1>1, <1>2, <1>3, RowChange DEF Ids
<1>5. \A j \in Ids : agents[j] \in Agent
  BY RowTyped
<1>6. Ids' = Ids
  BY <1>4 DEF Ids
<1>7. ASSUME NEW j \in Ids
      PROVE  /\ agents'[j].secret = agents[j].secret
             /\ agents'[j].version = agents[j].version
             /\ agents'[j].pending = agents[j].pending
             /\ agents'[j].pendingVersion = agents[j].pendingVersion
  <2>1. agents'[j] = (IF j = i THEN a ELSE agents[j]) /\ agents[j] \in Agent
    BY <1>4, <1>5 DEF Ids
  <2>2. QED
    BY <1>1, <2>1 DEF Agent
<1>8. QED
  BY <1>4, <1>6, <1>7

\* ... and the search for agents offline.
LEMMA OfflineShape ==
    ASSUME Types, NEW k \in Ids, MarkOffline(k)
    PROVE  /\ agents' \in Seq(Agent) /\ Len(agents') = Len(agents)
           /\ Ids' = Ids
           /\ \A j \in Ids :
                 /\ agents'[j].secret = agents[j].secret
                 /\ agents'[j].version = agents[j].version
                 /\ agents'[j].pending = agents[j].pending
                 /\ agents'[j].pendingVersion = agents[j].pendingVersion
<1> DEFINE i == k
           a == [agents[i] EXCEPT !.status = "offline"]
<1>1. i \in Ids /\ agents[i] \in Agent /\ agents \in Seq(Agent)
  BY RowTyped DEF HandlersKnown, Types, RowsOK
<1>2. a \in Agent
  BY <1>1, HandlerTyped DEF Agent, Secret
<1>3. agents' = [agents EXCEPT ![i] = a]
  BY <1>1 DEF MarkOffline
<1>4. /\ agents' \in Seq(Agent) /\ Len(agents') = Len(agents)
      /\ \A j \in 1..Len(agents) : agents'[j] = IF j = i THEN a ELSE agents[j]
  BY <1>1, <1>2, <1>3, RowChange DEF Ids
<1>5. \A j \in Ids : agents[j] \in Agent
  BY RowTyped
<1>6. Ids' = Ids
  BY <1>4 DEF Ids
<1>7. ASSUME NEW j \in Ids
      PROVE  /\ agents'[j].secret = agents[j].secret
             /\ agents'[j].version = agents[j].version
             /\ agents'[j].pending = agents[j].pending
             /\ agents'[j].pendingVersion = agents[j].pendingVersion
  <2>1. agents'[j] = (IF j = i THEN a ELSE agents[j]) /\ agents[j] \in Agent
    BY <1>4, <1>5 DEF Ids
  <2>2. QED
    BY <1>1, <2>1 DEF Agent
<1>8. QED
  BY <1>4, <1>6, <1>7

\* An activation replaces the credential of one identity ...
LEMMA ActivateShape ==
    ASSUME Types, Known, NEW w \in Workers, ActivateUpdate(w),
           worker[w].secret # 0, worker[w].version # 0
    PROVE  /\ agents' \in Seq(Agent) /\ Len(agents') = Len(agents)
           /\ Ids' = Ids
           /\ \A j \in Ids :
                 IF j = worker[w].id
                 THEN /\ agents'[j].secret = worker[w].secret
                      /\ agents'[j].version = worker[w].version
                      /\ agents'[j].pending = 0
                 ELSE agents'[j] = agents[j]
<1> DEFINE i == worker[w].id
           a == [agents[i] EXCEPT
                     !.secret = worker[w].secret, !.version = worker[w].version,
                     !.pending = 0, !.pendingVersion = 0]
<1>1. i \in Ids /\ agents[i] \in Agent /\ agents \in Seq(Agent)
  BY RowTyped
  DEF Known, HandlersKnown, Types, RowsOK, ActivateUpdate, Beating, Busy
<1>2. a \in Agent
  BY <1>1, HandlerTyped DEF Agent, Secret
<1>3. agents' = [agents EXCEPT ![i] = a]
  BY <1>1 DEF ActivateUpdate, Activate
<1>4. /\ agents' \in Seq(Agent) /\ Len(agents') = Len(agents)
      /\ \A j \in 1..Len(agents) : agents'[j] = IF j = i THEN a ELSE agents[j]
  BY <1>1, <1>2, <1>3, RowChange DEF Ids
<1>5. \A j \in Ids : agents[j] \in Agent
  BY RowTyped
<1>6. Ids' = Ids
  BY <1>4 DEF Ids
<1>7. ASSUME NEW j \in Ids
      PROVE  IF j = worker[w].id
             THEN /\ agents'[j].secret = worker[w].secret
                  /\ agents'[j].version = worker[w].version
                  /\ agents'[j].pending = 0
             ELSE agents'[j] = agents[j]
  <2>1. agents'[j] = (IF j = i THEN a ELSE agents[j]) /\ agents[j] \in Agent
    BY <1>4, <1>5 DEF Ids
  <2>2. QED
    BY <1>1, <2>1 DEF Agent
<1>8. QED
  BY <1>4, <1>6, <1>7

\* ... and a rotation puts another one beside it.
LEMMA RotateShape ==
    ASSUME Types, Known, NEW w \in Workers, RotateUpdate(w)
    PROVE  /\ agents' \in Seq(Agent) /\ Len(agents') = Len(agents)
           /\ Ids' = Ids
           /\ \A j \in Ids :
                 /\ agents'[j].secret = agents[j].secret
                 /\ agents'[j].version = agents[j].version
                 /\ j # worker[w].id => agents'[j] = agents[j]
                 /\ j = worker[w].id =>
                       agents'[j].pendingVersion = worker[w].version
<1> DEFINE i == worker[w].id
           a == [agents[i] EXCEPT !.pending = worker[w].secret,
                                   !.pendingVersion = worker[w].version]
<1>1. i \in Ids /\ agents[i] \in Agent /\ agents \in Seq(Agent)
  BY RowTyped DEF Known, HandlersKnown, Types, RowsOK, RotateUpdate
<1>2. a \in Agent
  BY <1>1, HandlerTyped DEF Agent, Secret
<1>3. agents' = [agents EXCEPT ![i] = a]
  BY <1>1 DEF RotateUpdate
<1>4. /\ agents' \in Seq(Agent) /\ Len(agents') = Len(agents)
      /\ \A j \in 1..Len(agents) : agents'[j] = IF j = i THEN a ELSE agents[j]
  BY <1>1, <1>2, <1>3, RowChange DEF Ids
<1>5. \A j \in Ids : agents[j] \in Agent
  BY RowTyped
<1>6. Ids' = Ids
  BY <1>4 DEF Ids
<1>7. ASSUME NEW j \in Ids
      PROVE  /\ agents'[j].secret = agents[j].secret
             /\ agents'[j].version = agents[j].version
             /\ j # worker[w].id => agents'[j] = agents[j]
             /\ j = worker[w].id =>
                       agents'[j].pendingVersion = worker[w].version
  <2>1. agents'[j] = (IF j = i THEN a ELSE agents[j]) /\ agents[j] \in Agent
    BY <1>4, <1>5 DEF Ids
  <2>2. QED
    BY <1>1, <2>1 DEF Agent
<1>8. QED
  BY <1>4, <1>6, <1>7

\* A client that gives up leaves the threads as they are, unawaited.
LEMMA AbandonShape ==
    ASSUME Types, NEW w \in Workers, worker' = Abandon
    PROVE  /\ worker'[w].op = worker[w].op /\ worker'[w].id = worker[w].id
           /\ worker'[w].secret = worker[w].secret
           /\ worker'[w].version = worker[w].version
           /\ ~worker'[w].awaited
<1>1. /\ worker[w] \in Handler
      /\ worker'[w] = [worker[w] EXCEPT !.awaited = FALSE]
  BY HandlerTyped DEF Abandon
<1>2. QED
  BY <1>1 DEF Handler

\* What each operation of a handler leaves in its thread.
LEMMA WorkerShape ==
    ASSUME Types, Known, NEW w \in Workers
    PROVE  /\ \/ EnrollCommit(w) \/ RotateUpdate(w) \/ ActivateUpdate(w)
              \/ RequestDies(w)
              => worker'[w].op = "idle" /\ ~worker'[w].awaited
           /\ EnrollCheck(w) => worker'[w].op = "enroll" /\ worker'[w].awaited
           /\ HeartbeatAuth(w) =>
                 /\ worker'[w].op = "heartbeat" /\ worker'[w].awaited
                 /\ worker'[w].id = mem.id
           /\ UpdateHeartbeat(w) =>
                 /\ worker'[w].op = "deliver" /\ worker'[w].id = worker[w].id
                 /\ worker'[w].awaited = worker[w].awaited
           /\ ActivateSelect(w) =>
                 \/ worker'[w].op = "idle" /\ ~worker'[w].awaited
                 \/ /\ agents[worker[w].id].pending # 0 /\ pc' = pc
                    /\ worker'[w].op = "activate" /\ worker'[w].id = worker[w].id
                    /\ worker'[w].awaited = worker[w].awaited
                    /\ worker'[w].secret = agents[worker[w].id].pending
                    /\ worker'[w].version = agents[worker[w].id].pendingVersion
<1>1. worker[w] \in Handler /\ IdleWorker \in Handler
  BY HandlerTyped DEF IdleWorker, Handler
<1>2. IdleWorker.op = "idle" /\ ~IdleWorker.awaited
  BY DEF IdleWorker
<1>3. \A h : worker' = [worker EXCEPT ![w] = h] => worker'[w] = h
  BY DEF Types, HandlersOK
<1>4. \/ EnrollCommit(w) \/ RotateUpdate(w) \/ ActivateUpdate(w)
      \/ RequestDies(w)
      => worker'[w].op = "idle" /\ ~worker'[w].awaited
  BY <1>2, <1>3 DEF EnrollCommit, RotateUpdate, ActivateUpdate, RequestDies
<1>5. EnrollCheck(w) => worker'[w].op = "enroll" /\ worker'[w].awaited
  BY <1>1, <1>3 DEF EnrollCheck, Handler
<1>6. HeartbeatAuth(w) => /\ worker'[w].op = "heartbeat" /\ worker'[w].awaited
                          /\ worker'[w].id = mem.id
  BY <1>1, <1>3 DEF HeartbeatAuth, Handler
<1>7. ASSUME UpdateHeartbeat(w)
      PROVE  /\ worker'[w].op = "deliver" /\ worker'[w].id = worker[w].id
             /\ worker'[w].awaited = worker[w].awaited
  <2>1. worker'[w] = [worker[w] EXCEPT !.op = "deliver"]
    BY <1>3, <1>7 DEF UpdateHeartbeat
  <2>2. QED
    BY <1>1, <2>1 DEF Handler
<1> DEFINE a == agents[worker[w].id]
<1>8. ASSUME ActivateSelect(w), a.pending = 0
      PROVE  worker'[w].op = "idle" /\ ~worker'[w].awaited
  BY <1>2, <1>3, <1>8 DEF ActivateSelect
<1>9. ASSUME ActivateSelect(w), a.pending # 0
      PROVE  /\ pc' = pc /\ worker'[w].op = "activate"
             /\ worker'[w].id = worker[w].id
             /\ worker'[w].awaited = worker[w].awaited
             /\ worker'[w].secret = a.pending
             /\ worker'[w].version = a.pendingVersion
  <2> DEFINE h == ActivateRequest(worker[w], a.pending, a.pendingVersion)
  <2>1. /\ pc' = pc
        /\ worker' = [worker EXCEPT ![w] = h]
    BY <1>9 DEF ActivateSelect, ActivateRequest
  <2>2. worker'[w] = h
    BY <1>3, <2>1
  <2>3. a.pending \in Nat /\ a.pendingVersion \in Nat
    BY <1>9, RowTyped
    DEF ActivateSelect, Known, HandlersKnown, Beating, Busy, Agent, Secret
  <2>4. \A s, v \in Nat :
            LET k == ActivateRequest(worker[w], s, v)
            IN  /\ k.op = "activate" /\ k.id = worker[w].id
                /\ k.secret = s /\ k.version = v
                /\ k.awaited = worker[w].awaited
    BY <1>1, ActivateRequestTyped
  <2>5. /\ h.op = "activate" /\ h.id = worker[w].id
        /\ h.secret = a.pending /\ h.version = a.pendingVersion
        /\ h.awaited = worker[w].awaited
    BY <2>3, <2>4
  <2> HIDE DEF h
  <2>6. QED
    BY <2>1, <2>2, <2>5
<1>10. QED
  BY <1>4, <1>5, <1>6, <1>7, <1>8, <1>9

\* A rotation begins in a thread that nobody waits for.
LEMMA RotateSelectShape ==
    ASSUME Types, NEW w \in Workers, NEW i \in Ids, RotateSelect(w, i)
    PROVE  /\ worker'[w].op = "rotate" /\ ~worker'[w].awaited
           /\ worker'[w].id = i /\ worker'[w].secret = nextSecret
           /\ worker'[w].version = agents[i].version + 1
           /\ \A v \in Workers : v # w => worker'[v] = worker[v]
<1>1. agents[i].version + 1 \in Nat /\ i \in Nat /\ nextSecret \in Nat
  BY RowTyped DEF Types, RowsOK, Agent, Ids
<1> DEFINE h == RotateRequest(i, nextSecret, agents[i].version + 1)
<1>2. worker' = [worker EXCEPT ![w] = h]
  BY DEF RotateSelect, RotateRequest
<1>3. worker'[w] = h
  BY <1>2 DEF Types, HandlersOK
<1>4. \A v \in Workers : v # w => worker'[v] = worker[v]
  BY <1>2
<1>5. QED
  BY <1>1, <1>3, <1>4, RotateRequestTyped

\* The other threads are where they were.
LEMMA OthersStay ==
    ASSUME Types, NEW w \in Workers,
           \/ EnrollCommit(w) \/ RotateUpdate(w) \/ ActivateUpdate(w)
           \/ RequestDies(w) \/ EnrollCheck(w) \/ HeartbeatAuth(w)
           \/ UpdateHeartbeat(w) \/ ActivateSelect(w)
    PROVE  \A v \in Workers : v # w => worker'[v] = worker[v]
<1>1. ASSUME NEW h, worker' = [worker EXCEPT ![w] = h]
      PROVE  \A v \in Workers : v # w => worker'[v] = worker[v]
  BY <1>1
<1>2. CASE \/ EnrollCommit(w) \/ RotateUpdate(w) \/ ActivateUpdate(w)
           \/ RequestDies(w)
  BY <1>1, <1>2 DEF EnrollCommit, RotateUpdate, ActivateUpdate, RequestDies
<1>3. CASE EnrollCheck(w) \/ HeartbeatAuth(w) \/ UpdateHeartbeat(w)
  BY <1>1, <1>3 DEF EnrollCheck, HeartbeatAuth, UpdateHeartbeat
<1>4. CASE ActivateSelect(w)
  BY <1>4 DEF ActivateSelect, Types, HandlersOK
<1>5. QED
  BY <1>2, <1>3, <1>4

-----------------------------------------------------------------------------
\* Types

\* Every step keeps the types of the tables ...
LEMMA RowsOKStep == Types /\ Known /\ Carried /\ [Next]_vars => RowsOK'
<1> SUFFICES ASSUME Types /\ Known /\ Carried, [Next]_vars PROVE RowsOK'
  OBVIOUS
<1>same. CASE UNCHANGED <<bootstrap, agents, nextSecret>>
  BY <1>same DEF Types, RowsOK
<1>1. ASSUME Start PROVE RowsOK'
  BY <1>1, <1>same DEF Start
<1>2. ASSUME StartFails PROVE RowsOK'
  BY <1>2, <1>same DEF StartFails
<1>3. ASSUME EnrollRefused PROVE RowsOK'
  BY <1>3, <1>same DEF EnrollRefused
<1>4. ASSUME NEW w \in Workers, EnrollCheck(w) PROVE RowsOK'
  BY <1>4, <1>same DEF EnrollCheck
<1>5. ASSUME NEW w \in Workers, HeartbeatAuth(w) PROVE RowsOK'
  BY <1>5, <1>same DEF HeartbeatAuth
<1>6. ASSUME SaveEnrolled PROVE RowsOK'
  BY <1>6, <1>same DEF SaveEnrolled
<1>7. ASSUME Scrub PROVE RowsOK'
  BY <1>7, <1>same DEF Scrub
<1>8. ASSUME SaveRotated PROVE RowsOK'
  BY <1>8, <1>same DEF SaveRotated
<1>9. ASSUME HeartbeatDenied PROVE RowsOK'
  BY <1>9, <1>same DEF HeartbeatDenied, vars
<1>10. ASSUME Restart PROVE RowsOK'
  BY <1>10, <1>same DEF Restart
<1>11. ASSUME NEW w \in Workers, EnrollCommit(w) PROVE RowsOK'
  <2>1. agents' \in Seq(Agent)
    BY <1>11, EnrollShape
  <2>2. QED
    BY <1>11, <2>1 DEF EnrollCommit, Types, RowsOK
<1>12. ASSUME NEW w \in Workers, UpdateHeartbeat(w) PROVE RowsOK'
  <2>1. agents' \in Seq(Agent)
    BY <1>12, HeartbeatShape
  <2>2. QED
    BY <1>12, <2>1 DEF UpdateHeartbeat, Types, RowsOK
<1>13. ASSUME NEW w \in Workers, ActivateSelect(w) PROVE RowsOK'
  BY <1>13, <1>same DEF ActivateSelect
<1>14. ASSUME NEW w \in Workers, ActivateUpdate(w) PROVE RowsOK'
  <2>1. agents' \in Seq(Agent)
    BY <1>14, ActivateShape DEF Carried, ActivateUpdate
  <2>2. QED
    BY <1>14, <2>1 DEF ActivateUpdate, Types, RowsOK
<1>15. ASSUME NEW w \in Workers, RotateUpdate(w) PROVE RowsOK'
  <2>1. agents' \in Seq(Agent)
    BY <1>15, RotateShape
  <2>2. QED
    BY <1>15, <2>1 DEF RotateUpdate, Types, RowsOK
<1>16. ASSUME NEW i \in Ids, Revoke(i) PROVE RowsOK'
  <2>1. agents' \in Seq(Agent)
    BY <1>16, RevokeShape
  <2>2. QED
    BY <1>16, <2>1 DEF Revoke, Types, RowsOK
<1>17. ASSUME NEW i \in Ids, MarkOffline(i) PROVE RowsOK'
  <2>1. agents' \in Seq(Agent)
    BY <1>17, OfflineShape
  <2>2. QED
    BY <1>17, <2>1 DEF MarkOffline, Types, RowsOK
<1>18. ASSUME NEW w \in Workers, NEW i \in Ids, RotateSelect(w, i)
       PROVE  RowsOK'
  BY <1>18 DEF RotateSelect, Types, RowsOK
<1>19. ASSUME TokenEnds PROVE RowsOK'
  BY <1>19 DEF TokenEnds, Types, RowsOK
<1>20. ASSUME Reprovision PROVE RowsOK'
  BY <1>20, <1>same DEF Reprovision
<1>21. ASSUME AgentTimesOut PROVE RowsOK'
  BY <1>21, <1>same DEF AgentTimesOut
<1>22. ASSUME NEW w \in Workers, RequestDies(w) PROVE RowsOK'
  BY <1>22, <1>same DEF RequestDies
<1>23. ASSUME WriteFails PROVE RowsOK'
  BY <1>23, <1>same DEF WriteFails
<1>24. ASSUME Crash PROVE RowsOK'
  BY <1>24, <1>same DEF Crash
<1>25. CASE UNCHANGED vars
  BY <1>25, <1>same DEF vars
<1> QED
  BY <1>1, <1>2, <1>3, <1>4, <1>5, <1>6, <1>7, <1>8, <1>9, <1>10, <1>11,
     <1>12, <1>13, <1>14, <1>15, <1>16, <1>17, <1>18, <1>19, <1>20, <1>21,
     <1>22, <1>23, <1>24, <1>25
  DEF Next, AgentStep, WorkerStep, AdminStep, FaultStep

\* ... of the threads ...
LEMMA HandlersOKStep ==
    Types /\ Known /\ Carried /\ [Next]_vars => HandlersOK'
<1> SUFFICES ASSUME Types /\ Known /\ Carried, [Next]_vars PROVE HandlersOK'
  OBVIOUS
<1>same. CASE UNCHANGED <<worker>>
  BY <1>same DEF Types, HandlersOK
<1>1. ASSUME Start PROVE HandlersOK'
  BY <1>1, <1>same DEF Start
<1>2. ASSUME StartFails PROVE HandlersOK'
  BY <1>2, <1>same DEF StartFails
<1>3. ASSUME EnrollRefused PROVE HandlersOK'
  BY <1>3, <1>same DEF EnrollRefused
<1>4. ASSUME NEW w \in Workers, EnrollCheck(w) PROVE HandlersOK'
  <2>1. [IdleWorker EXCEPT !.op = "enroll", !.awaited = TRUE] \in Handler
    BY <1>4, HandlerTyped DEF EnrollCheck, Handler, IdleWorker
  <2>2. QED
    BY <1>4, <2>1 DEF EnrollCheck, Types, HandlersOK
<1>5. ASSUME NEW w \in Workers, HeartbeatAuth(w) PROVE HandlersOK'
  <2>1. mem.id \in Nat
    BY <1>5 DEF HeartbeatAuth, Known, EndpointKnown, State
  <2>2. [IdleWorker EXCEPT !.op = "heartbeat", !.id = mem.id,
                           !.awaited = TRUE] \in Handler
    BY <2>1 DEF Handler, IdleWorker
  <2>3. QED
    BY <1>5, <2>2 DEF HeartbeatAuth, Types, HandlersOK
<1>6. ASSUME SaveEnrolled PROVE HandlersOK'
  BY <1>6, <1>same DEF SaveEnrolled
<1>7. ASSUME Scrub PROVE HandlersOK'
  BY <1>7, <1>same DEF Scrub
<1>8. ASSUME SaveRotated PROVE HandlersOK'
  BY <1>8, <1>same DEF SaveRotated
<1>9. ASSUME HeartbeatDenied PROVE HandlersOK'
  BY <1>9, <1>same DEF HeartbeatDenied, vars
<1>10. ASSUME Restart PROVE HandlersOK'
  BY <1>10, <1>same DEF Restart
<1>11. ASSUME NEW w \in Workers, EnrollCommit(w) PROVE HandlersOK'
  <2>1. IdleWorker \in Handler
    BY DEF IdleWorker, Handler
  <2>2. QED
    BY <1>11, <2>1 DEF EnrollCommit, Types, HandlersOK
<1>12. ASSUME NEW w \in Workers, UpdateHeartbeat(w) PROVE HandlersOK'
  <2>1. [worker[w] EXCEPT !.op = "deliver"] \in Handler
    BY <1>12, HandlerTyped DEF UpdateHeartbeat, Handler
  <2>2. QED
    BY <1>12, <2>1 DEF UpdateHeartbeat, Types, HandlersOK
<1>13. ASSUME NEW w \in Workers, ActivateSelect(w) PROVE HandlersOK'
  <2> DEFINE a == agents[worker[w].id]
             h == [worker[w] EXCEPT !.op = "activate", !.secret = a.pending,
                                    !.version = a.pendingVersion]
  <2>1. a \in Agent
    BY <1>13, RowTyped DEF ActivateSelect, Known, HandlersKnown, Beating, Busy
  <2>2. h \in Handler /\ IdleWorker \in Handler
    <3>1. a.pending \in Nat /\ a.pendingVersion \in Nat
      BY <2>1 DEF Agent, Secret
    <3>2. worker[w] \in Handler
      BY HandlerTyped
    <3>3. h \in Handler
      BY <3>1, <3>2 DEF Handler
    <3>4. QED
      BY <3>3 DEF Handler, IdleWorker
  <2>3. \/ worker' = [worker EXCEPT ![w] = IdleWorker]
        \/ worker' = [worker EXCEPT ![w] = h]
    BY <1>13 DEF ActivateSelect
  <2>4. QED
    BY <2>2, <2>3 DEF Types, HandlersOK
<1>14. ASSUME NEW w \in Workers, ActivateUpdate(w) PROVE HandlersOK'
  <2>1. IdleWorker \in Handler
    BY DEF IdleWorker, Handler
  <2>2. QED
    BY <1>14, <2>1 DEF ActivateUpdate, Types, HandlersOK
<1>15. ASSUME NEW w \in Workers, RotateUpdate(w) PROVE HandlersOK'
  <2>1. IdleWorker \in Handler
    BY DEF IdleWorker, Handler
  <2>2. QED
    BY <1>15, <2>1 DEF RotateUpdate, Types, HandlersOK
<1>16. ASSUME NEW i \in Ids, Revoke(i) PROVE HandlersOK'
  BY <1>16, <1>same DEF Revoke
<1>17. ASSUME NEW i \in Ids, MarkOffline(i) PROVE HandlersOK'
  BY <1>17, <1>same DEF MarkOffline
<1>18. ASSUME NEW w \in Workers, NEW i \in Ids, RotateSelect(w, i)
       PROVE  HandlersOK'
  <2>1. agents[i].version + 1 \in Nat /\ i \in Nat /\ nextSecret \in Nat
    BY RowTyped DEF Types, RowsOK, Agent, Ids
  <2>2. RotateRequest(i, nextSecret, agents[i].version + 1) \in Handler
    BY <2>1, RotateRequestTyped
  <2>3. QED
    BY <1>18, <2>2 DEF RotateSelect, RotateRequest, Types, HandlersOK
<1>19. ASSUME TokenEnds PROVE HandlersOK'
  BY <1>19, <1>same DEF TokenEnds
<1>20. ASSUME Reprovision PROVE HandlersOK'
  BY <1>20, <1>same DEF Reprovision
<1>21. ASSUME AgentTimesOut PROVE HandlersOK'
  <2>1. \A w \in Workers : [worker[w] EXCEPT !.awaited = FALSE] \in Handler
    BY HandlerTyped DEF Handler
  <2>2. QED
    BY <1>21, <2>1 DEF AgentTimesOut, Abandon, HandlersOK
<1>22. ASSUME NEW w \in Workers, RequestDies(w) PROVE HandlersOK'
  <2>1. IdleWorker \in Handler
    BY DEF IdleWorker, Handler
  <2>2. QED
    BY <1>22, <2>1 DEF RequestDies, Types, HandlersOK
<1>23. ASSUME WriteFails PROVE HandlersOK'
  BY <1>23, <1>same DEF WriteFails
<1>24. ASSUME Crash PROVE HandlersOK'
  <2>1. \A w \in Workers : [worker[w] EXCEPT !.awaited = FALSE] \in Handler
    BY HandlerTyped DEF Handler
  <2>2. QED
    BY <1>24, <2>1 DEF Crash, Abandon, HandlersOK
<1>25. CASE UNCHANGED vars
  BY <1>25, <1>same DEF vars
<1> QED
  BY <1>1, <1>2, <1>3, <1>4, <1>5, <1>6, <1>7, <1>8, <1>9, <1>10, <1>11,
     <1>12, <1>13, <1>14, <1>15, <1>16, <1>17, <1>18, <1>19, <1>20, <1>21,
     <1>22, <1>23, <1>24, <1>25
  DEF Next, AgentStep, WorkerStep, AdminStep, FaultStep

\* ... of the endpoint, which gets a whole credential or none ...
LEMMA EndpointOKStep ==
    Types /\ Known /\ Carried /\ Awaiting /\ [Next]_vars => EndpointOK'
<1> SUFFICES ASSUME Types /\ Known /\ Carried /\ Awaiting, [Next]_vars
             PROVE  EndpointOK'
  OBVIOUS
<1>1. ASSUME Start PROVE EndpointOK'
  BY <1>1 DEF Start, Loads, Types, EndpointOK
<1>2. ASSUME StartFails PROVE EndpointOK'
  BY <1>2 DEF StartFails, Types, EndpointOK
<1>3. ASSUME EnrollRefused PROVE EndpointOK'
  BY <1>3 DEF EnrollRefused, Types, EndpointOK
<1>4. ASSUME NEW w \in Workers, EnrollCheck(w) PROVE EndpointOK'
  BY <1>4 DEF EnrollCheck, Types, EndpointOK
<1>5. ASSUME NEW w \in Workers, HeartbeatAuth(w) PROVE EndpointOK'
  BY <1>5 DEF HeartbeatAuth, Types, EndpointOK
<1>6. ASSUME SaveEnrolled PROVE EndpointOK'
  BY <1>6 DEF SaveEnrolled, Types, EndpointOK
<1>7. ASSUME Scrub PROVE EndpointOK'
  BY <1>7 DEF Scrub, Types, EndpointOK
<1>8. ASSUME SaveRotated PROVE EndpointOK'
  BY <1>8 DEF SaveRotated, Types, EndpointOK
<1>9. ASSUME HeartbeatDenied PROVE EndpointOK'
  BY <1>9 DEF HeartbeatDenied, vars, Types, EndpointOK
<1>10. ASSUME Restart PROVE EndpointOK'
  BY <1>10 DEF Restart, Types, EndpointOK
<1>11. ASSUME NEW w \in Workers, EnrollCommit(w) PROVE EndpointOK'
  <2>1. [id |-> Len(agents) + 1, secret |-> nextSecret,
         version |-> 1] \in State
    BY LenProperties DEF Types, RowsOK, State, Secret
  <2>2. QED
    BY <1>11, <2>1 DEF EnrollCommit, Types, EndpointOK
<1>12. ASSUME NEW w \in Workers, UpdateHeartbeat(w) PROVE EndpointOK'
  BY <1>12 DEF UpdateHeartbeat, Types, EndpointOK
<1>13. ASSUME NEW w \in Workers, ActivateSelect(w) PROVE EndpointOK'
  BY <1>13 DEF ActivateSelect, Types, EndpointOK
<1>14. ASSUME NEW w \in Workers, ActivateUpdate(w) PROVE EndpointOK'
  <2>1. /\ worker[w].secret \in Secret /\ worker[w].version \in Nat \ {0}
    BY <1>14, HandlerTyped DEF ActivateUpdate, Carried, Secret
  <2>2. CASE worker[w].awaited /\ Adopts(worker[w].version)
    <3>1. mem \in State
      BY <2>2, <1>14 DEF Awaiting, ActivateUpdate, Busy, Known, EndpointKnown
    <3>2. mem' \in State
      BY <1>14, <2>1, <2>2, <3>1 DEF ActivateUpdate, State
    <3>3. QED
      BY <1>14, <2>2, <3>2 DEF ActivateUpdate, Types, EndpointOK
  <2>3. CASE ~(worker[w].awaited /\ Adopts(worker[w].version))
    BY <1>14, <2>3 DEF ActivateUpdate, Types, EndpointOK
  <2>4. QED
    BY <2>2, <2>3
<1>15. ASSUME NEW w \in Workers, RotateUpdate(w) PROVE EndpointOK'
  BY <1>15 DEF RotateUpdate, Types, EndpointOK
<1>16. ASSUME NEW i \in Ids, Revoke(i) PROVE EndpointOK'
  BY <1>16 DEF Revoke, Types, EndpointOK
<1>17. ASSUME NEW i \in Ids, MarkOffline(i) PROVE EndpointOK'
  BY <1>17 DEF MarkOffline, Types, EndpointOK
<1>18. ASSUME NEW w \in Workers, NEW i \in Ids, RotateSelect(w, i)
       PROVE  EndpointOK'
  BY <1>18 DEF RotateSelect, Types, EndpointOK
<1>19. ASSUME TokenEnds PROVE EndpointOK'
  BY <1>19 DEF TokenEnds, Types, EndpointOK
<1>20. ASSUME Reprovision PROVE EndpointOK'
  BY <1>20 DEF Reprovision, Types, EndpointOK
<1>21. ASSUME AgentTimesOut PROVE EndpointOK'
  BY <1>21 DEF AgentTimesOut, CallFails, Types, EndpointOK
<1>22. ASSUME NEW w \in Workers, RequestDies(w) PROVE EndpointOK'
  BY <1>22 DEF RequestDies, CallFails, Types, EndpointOK
<1>23. ASSUME WriteFails PROVE EndpointOK'
  BY <1>23
  DEF WriteFails, DiskAfterInterruption, ConfigAfterInterruption, Interrupted,
      Types, EndpointOK
<1>24. ASSUME Crash PROVE EndpointOK'
  BY <1>24
  DEF Crash, DiskAfterInterruption, ConfigAfterInterruption, Interrupted,
      Types, EndpointOK
<1>25. CASE UNCHANGED vars
  BY <1>25 DEF vars, Types, EndpointOK
<1> QED
  BY <1>1, <1>2, <1>3, <1>4, <1>5, <1>6, <1>7, <1>8, <1>9, <1>10, <1>11,
     <1>12, <1>13, <1>14, <1>15, <1>16, <1>17, <1>18, <1>19, <1>20, <1>21,
     <1>22, <1>23, <1>24, <1>25
  DEF Next, AgentStep, WorkerStep, AdminStep, FaultStep

\* ... and of the histories.
LEMMA HistoryOKStep == Types /\ [Next]_vars => HistoryOK'
<1> SUFFICES ASSUME Types, [Next]_vars PROVE HistoryOK'
  OBVIOUS
<1>1. ASSUME Start PROVE HistoryOK'
  BY <1>1 DEF Start, history, Types, HistoryOK
<1>2. ASSUME StartFails PROVE HistoryOK'
  BY <1>2 DEF StartFails, history, Types, HistoryOK
<1>3. ASSUME EnrollRefused PROVE HistoryOK'
  BY <1>3 DEF EnrollRefused, history, Types, HistoryOK
<1>4. ASSUME NEW w \in Workers, EnrollCheck(w) PROVE HistoryOK'
  BY <1>4 DEF EnrollCheck, history, Types, HistoryOK
<1>5. ASSUME NEW w \in Workers, HeartbeatAuth(w) PROVE HistoryOK'
  BY <1>5 DEF HeartbeatAuth, history, Types, HistoryOK
<1>6. ASSUME SaveEnrolled PROVE HistoryOK'
  BY <1>6 DEF SaveEnrolled, history, Types, HistoryOK
<1>7. ASSUME Scrub PROVE HistoryOK'
  BY <1>7 DEF Scrub, history, Types, HistoryOK
<1>8. ASSUME SaveRotated PROVE HistoryOK'
  BY <1>8 DEF SaveRotated, history, Types, HistoryOK
<1>9. ASSUME HeartbeatDenied PROVE HistoryOK'
  BY <1>9 DEF HeartbeatDenied, vars, history, Types, HistoryOK
<1>10. ASSUME Restart PROVE HistoryOK'
  BY <1>10 DEF Restart, history, Types, HistoryOK
<1>11. ASSUME NEW w \in Workers, EnrollCommit(w) PROVE HistoryOK'
  BY <1>11 DEF EnrollCommit, history, Types, HistoryOK
<1>12. ASSUME NEW w \in Workers, UpdateHeartbeat(w) PROVE HistoryOK'
  BY <1>12 DEF UpdateHeartbeat, history, Types, HistoryOK
<1>13. ASSUME NEW w \in Workers, ActivateSelect(w) PROVE HistoryOK'
  BY <1>13 DEF ActivateSelect, history, Types, HistoryOK
<1>14. ASSUME NEW w \in Workers, ActivateUpdate(w) PROVE HistoryOK'
  BY <1>14 DEF ActivateUpdate, history, Types, HistoryOK
<1>15. ASSUME NEW w \in Workers, RotateUpdate(w) PROVE HistoryOK'
  BY <1>15 DEF RotateUpdate, Types, HistoryOK
<1>16. ASSUME NEW i \in Ids, Revoke(i) PROVE HistoryOK'
  BY <1>16 DEF Revoke, history, Types, HistoryOK
<1>17. ASSUME NEW i \in Ids, MarkOffline(i) PROVE HistoryOK'
  BY <1>17 DEF MarkOffline, history, Types, HistoryOK
<1>18. ASSUME NEW w \in Workers, NEW i \in Ids, RotateSelect(w, i)
       PROVE  HistoryOK'
  BY <1>18 DEF RotateSelect, Types, HistoryOK
<1>19. ASSUME TokenEnds PROVE HistoryOK'
  BY <1>19 DEF TokenEnds, history, Types, HistoryOK
<1>20. ASSUME Reprovision PROVE HistoryOK'
  BY <1>20 DEF Reprovision, Types, HistoryOK
<1>21. ASSUME AgentTimesOut PROVE HistoryOK'
  BY <1>21 DEF AgentTimesOut, Fault, Types, HistoryOK
<1>22. ASSUME NEW w \in Workers, RequestDies(w) PROVE HistoryOK'
  BY <1>22 DEF RequestDies, Fault, Types, HistoryOK
<1>23. ASSUME WriteFails PROVE HistoryOK'
  BY <1>23 DEF WriteFails, Fault, Types, HistoryOK
<1>24. ASSUME Crash PROVE HistoryOK'
  BY <1>24 DEF Crash, Fault, Types, HistoryOK
<1>25. CASE UNCHANGED vars
  BY <1>25 DEF vars, history, Types, HistoryOK
<1> QED
  BY <1>1, <1>2, <1>3, <1>4, <1>5, <1>6, <1>7, <1>8, <1>9, <1>10, <1>11,
     <1>12, <1>13, <1>14, <1>15, <1>16, <1>17, <1>18, <1>19, <1>20, <1>21,
     <1>22, <1>23, <1>24, <1>25
  DEF Next, AgentStep, WorkerStep, AdminStep, FaultStep

\* Every step keeps the types.
LEMMA TypesStep ==
    Types /\ Known /\ Carried /\ Awaiting /\ [Next]_vars => Types'
BY RowsOKStep, HandlersOKStep, EndpointOKStep, HistoryOKStep DEF Types

-----------------------------------------------------------------------------
\* Identities, requests and answers

\* No identity is ever taken back.
LEMMA IdsGrow ==
    Types /\ Known /\ Carried /\ [Next]_vars => Ids \subseteq Ids'
<1> SUFFICES ASSUME Types /\ Known /\ Carried, [Next]_vars
             PROVE  Ids \subseteq Ids'
  OBVIOUS
<1>same. CASE UNCHANGED <<agents>>
  BY <1>same DEF Ids
<1>1. ASSUME Start PROVE Ids \subseteq Ids'
  BY <1>1, <1>same DEF Start
<1>2. ASSUME StartFails PROVE Ids \subseteq Ids'
  BY <1>2, <1>same DEF StartFails
<1>3. ASSUME EnrollRefused PROVE Ids \subseteq Ids'
  BY <1>3, <1>same DEF EnrollRefused
<1>4. ASSUME NEW w \in Workers, EnrollCheck(w) PROVE Ids \subseteq Ids'
  BY <1>4, <1>same DEF EnrollCheck
<1>5. ASSUME NEW w \in Workers, HeartbeatAuth(w) PROVE Ids \subseteq Ids'
  BY <1>5, <1>same DEF HeartbeatAuth
<1>6. ASSUME SaveEnrolled PROVE Ids \subseteq Ids'
  BY <1>6, <1>same DEF SaveEnrolled
<1>7. ASSUME Scrub PROVE Ids \subseteq Ids'
  BY <1>7, <1>same DEF Scrub
<1>8. ASSUME SaveRotated PROVE Ids \subseteq Ids'
  BY <1>8, <1>same DEF SaveRotated
<1>9. ASSUME HeartbeatDenied PROVE Ids \subseteq Ids'
  BY <1>9, <1>same DEF HeartbeatDenied, vars
<1>10. ASSUME Restart PROVE Ids \subseteq Ids'
  BY <1>10, <1>same DEF Restart
<1>11. ASSUME NEW w \in Workers, EnrollCommit(w) PROVE Ids \subseteq Ids'
  BY <1>11, EnrollShape
<1>12. ASSUME NEW w \in Workers, UpdateHeartbeat(w) PROVE Ids \subseteq Ids'
  BY <1>12, HeartbeatShape
<1>13. ASSUME NEW w \in Workers, ActivateSelect(w) PROVE Ids \subseteq Ids'
  BY <1>13, <1>same DEF ActivateSelect
<1>14. ASSUME NEW w \in Workers, ActivateUpdate(w) PROVE Ids \subseteq Ids'
  BY <1>14, ActivateShape DEF Carried, ActivateUpdate
<1>15. ASSUME NEW w \in Workers, RotateUpdate(w) PROVE Ids \subseteq Ids'
  BY <1>15, RotateShape
<1>16. ASSUME NEW i \in Ids, Revoke(i) PROVE Ids \subseteq Ids'
  BY <1>16, RevokeShape
<1>17. ASSUME NEW i \in Ids, MarkOffline(i) PROVE Ids \subseteq Ids'
  BY <1>17, OfflineShape
<1>18. ASSUME NEW w \in Workers, NEW i \in Ids, RotateSelect(w, i)
       PROVE  Ids \subseteq Ids'
  BY <1>18, <1>same DEF RotateSelect
<1>19. ASSUME TokenEnds PROVE Ids \subseteq Ids'
  BY <1>19, <1>same DEF TokenEnds
<1>20. ASSUME Reprovision PROVE Ids \subseteq Ids'
  BY <1>20, <1>same DEF Reprovision
<1>21. ASSUME AgentTimesOut PROVE Ids \subseteq Ids'
  BY <1>21, <1>same DEF AgentTimesOut
<1>22. ASSUME NEW w \in Workers, RequestDies(w) PROVE Ids \subseteq Ids'
  BY <1>22, <1>same DEF RequestDies
<1>23. ASSUME WriteFails PROVE Ids \subseteq Ids'
  BY <1>23, <1>same DEF WriteFails
<1>24. ASSUME Crash PROVE Ids \subseteq Ids'
  BY <1>24, <1>same DEF Crash
<1>25. CASE UNCHANGED vars
  BY <1>25, <1>same DEF vars
<1> QED
  BY <1>1, <1>2, <1>3, <1>4, <1>5, <1>6, <1>7, <1>8, <1>9, <1>10, <1>11,
     <1>12, <1>13, <1>14, <1>15, <1>16, <1>17, <1>18, <1>19, <1>20, <1>21,
     <1>22, <1>23, <1>24, <1>25
  DEF Next, AgentStep, WorkerStep, AdminStep, FaultStep

\* The endpoint is given identities of the backend only ...
LEMMA EndpointKnownStep ==
    Types /\ Known /\ Carried /\ Awaiting /\ [Next]_vars => EndpointKnown'
<1> SUFFICES ASSUME Types /\ Known /\ Carried /\ Awaiting, [Next]_vars
             PROVE  EndpointKnown'
  OBVIOUS
<1>same. CASE UNCHANGED <<pc, mem, disk>>
  BY <1>same, IdsGrow DEF Known, EndpointKnown
<1>1. ASSUME Start PROVE EndpointKnown'
  BY <1>1, IdsGrow DEF Start, Loads, Types, EndpointOK, Known, EndpointKnown
<1>2. ASSUME StartFails PROVE EndpointKnown'
  BY <1>2, IdsGrow DEF StartFails, Known, EndpointKnown
<1>3. ASSUME EnrollRefused PROVE EndpointKnown'
  BY <1>3, IdsGrow DEF EnrollRefused, Known, EndpointKnown
<1>4. ASSUME NEW w \in Workers, EnrollCheck(w) PROVE EndpointKnown'
  BY <1>4, IdsGrow DEF EnrollCheck, Known, EndpointKnown
<1>5. ASSUME NEW w \in Workers, HeartbeatAuth(w) PROVE EndpointKnown'
  BY <1>5, IdsGrow DEF HeartbeatAuth, Known, EndpointKnown
<1>6. ASSUME SaveEnrolled PROVE EndpointKnown'
  BY <1>6, IdsGrow DEF SaveEnrolled, Known, EndpointKnown
<1>7. ASSUME Scrub PROVE EndpointKnown'
  BY <1>7, IdsGrow DEF Scrub, Known, EndpointKnown
<1>8. ASSUME SaveRotated PROVE EndpointKnown'
  BY <1>8, IdsGrow DEF SaveRotated, Known, EndpointKnown
<1>9. ASSUME HeartbeatDenied PROVE EndpointKnown'
  BY <1>9, <1>same DEF HeartbeatDenied, vars
<1>10. ASSUME Restart PROVE EndpointKnown'
  BY <1>10, IdsGrow DEF Restart, Known, EndpointKnown
<1>11. ASSUME NEW w \in Workers, EnrollCommit(w) PROVE EndpointKnown'
  <2>1. [id |-> Len(agents) + 1, secret |-> nextSecret,
         version |-> 1] \in State
    BY LenProperties DEF Types, RowsOK, State, Secret
  <2>2. Len(agents) + 1 \in Ids' /\ Ids \subseteq Ids'
    BY <1>11, EnrollShape
  <2>3. CASE worker[w].awaited
    BY <1>11, <2>1, <2>2, <2>3 DEF EnrollCommit, Known, EndpointKnown
  <2>4. CASE ~worker[w].awaited
    BY <1>11, <2>2, <2>4 DEF EnrollCommit, Known, EndpointKnown
  <2>5. QED
    BY <2>3, <2>4
<1>12. ASSUME NEW w \in Workers, UpdateHeartbeat(w) PROVE EndpointKnown'
  BY <1>12, <1>same DEF UpdateHeartbeat
<1>13. ASSUME NEW w \in Workers, ActivateSelect(w) PROVE EndpointKnown'
  <2>1. /\ UNCHANGED <<mem, disk>>
        /\ pc' = pc \/ (worker[w].awaited /\ pc' = "cycle")
    BY <1>13 DEF ActivateSelect
  <2>2. worker[w].awaited => pc = "heartbeatWait"
    BY <1>13 DEF ActivateSelect, Awaiting, Busy
  <2>3. QED
    BY <2>1, <2>2, IdsGrow DEF Known, EndpointKnown
<1>14. ASSUME NEW w \in Workers, ActivateUpdate(w) PROVE EndpointKnown'
  <2>1. worker[w].secret \in Secret /\ worker[w].version \in Nat \ {0}
    BY <1>14, HandlerTyped DEF ActivateUpdate, Carried, Secret
  <2>2. worker[w].awaited => pc = "heartbeatWait"
    BY <1>14 DEF ActivateUpdate, Awaiting, Busy
  <2>3. CASE worker[w].awaited
    <3>1. mem \in State /\ mem.id \in Ids /\ disk' = disk
      BY <2>2, <2>3, <1>14 DEF Known, EndpointKnown, ActivateUpdate
    <3>2. mem' \in State /\ mem'.id = mem.id
      BY <1>14, <2>1, <2>3, <3>1 DEF ActivateUpdate, State
    <3>3. QED
      BY <3>1, <3>2, IdsGrow DEF Known, EndpointKnown
  <2>4. CASE ~worker[w].awaited
    BY <1>14, <2>4, IdsGrow DEF ActivateUpdate, Known, EndpointKnown
  <2>5. QED
    BY <2>3, <2>4
<1>15. ASSUME NEW w \in Workers, RotateUpdate(w) PROVE EndpointKnown'
  BY <1>15, <1>same DEF RotateUpdate
<1>16. ASSUME NEW i \in Ids, Revoke(i) PROVE EndpointKnown'
  BY <1>16, <1>same DEF Revoke
<1>17. ASSUME NEW i \in Ids, MarkOffline(i) PROVE EndpointKnown'
  BY <1>17, <1>same DEF MarkOffline
<1>18. ASSUME NEW w \in Workers, NEW i \in Ids, RotateSelect(w, i)
       PROVE  EndpointKnown'
  BY <1>18, <1>same DEF RotateSelect
<1>19. ASSUME TokenEnds PROVE EndpointKnown'
  BY <1>19, <1>same DEF TokenEnds
<1>20. ASSUME Reprovision PROVE EndpointKnown'
  BY <1>20, FilesAssumption DEF Reprovision, EndpointKnown
<1>21. ASSUME AgentTimesOut PROVE EndpointKnown'
  <2>1. PICK w \in Workers : worker[w].awaited
    BY <1>21 DEF AgentTimesOut
  <2>2. pc \in {"enrollWait", "heartbeatWait"}
    BY <2>1 DEF Awaiting
  <2>3. QED
    BY <1>21, <2>2, IdsGrow DEF AgentTimesOut, CallFails, Known, EndpointKnown
<1>22. ASSUME NEW w \in Workers, RequestDies(w) PROVE EndpointKnown'
  <2>1. worker[w].awaited => pc \in {"enrollWait", "heartbeatWait"}
    BY DEF Awaiting
  <2>2. QED
    BY <1>22, <2>1, IdsGrow DEF RequestDies, CallFails, Known, EndpointKnown
<1>23. ASSUME WriteFails PROVE EndpointKnown'
  <2>1. disk' \in {disk, Torn} /\ Torn \notin State
    BY <1>23, FilesAssumption
    DEF WriteFails, DiskAfterInterruption, Interrupted
  <2>2. QED
    BY <1>23, <2>1, IdsGrow DEF WriteFails, Known, EndpointKnown
<1>24. ASSUME Crash PROVE EndpointKnown'
  <2>1. disk' \in {disk, Torn} /\ Torn \notin State
    BY <1>24, FilesAssumption DEF Crash, DiskAfterInterruption, Interrupted
  <2>2. QED
    BY <1>24, <2>1, IdsGrow DEF Crash, Known, EndpointKnown
<1>25. CASE UNCHANGED vars
  BY <1>25, <1>same DEF vars
<1> QED
  BY <1>1, <1>2, <1>3, <1>4, <1>5, <1>6, <1>7, <1>8, <1>9, <1>10, <1>11,
     <1>12, <1>13, <1>14, <1>15, <1>16, <1>17, <1>18, <1>19, <1>20, <1>21,
     <1>22, <1>23, <1>24, <1>25
  DEF Next, AgentStep, WorkerStep, AdminStep, FaultStep

\* ... and threads are started for such identities only.
LEMMA HandlersKnownStep ==
    Types /\ Known /\ Carried /\ [Next]_vars => HandlersKnown'
<1> SUFFICES ASSUME Types /\ Known /\ Carried, [Next]_vars
             PROVE  HandlersKnown'
  OBVIOUS
<1>same. CASE UNCHANGED <<worker>>
  BY <1>same, IdsGrow DEF Known, HandlersKnown, Beating, Busy
<1>1. ASSUME Start PROVE HandlersKnown'
  BY <1>1, <1>same DEF Start
<1>2. ASSUME StartFails PROVE HandlersKnown'
  BY <1>2, <1>same DEF StartFails
<1>3. ASSUME EnrollRefused PROVE HandlersKnown'
  BY <1>3, <1>same DEF EnrollRefused
<1>4. ASSUME NEW w \in Workers, EnrollCheck(w) PROVE HandlersKnown'
  BY <1>4, WorkerShape, OthersStay, IdsGrow
  DEF Known, HandlersKnown, Beating, Busy
<1>5. ASSUME NEW w \in Workers, HeartbeatAuth(w) PROVE HandlersKnown'
  BY <1>5, WorkerShape, OthersStay, IdsGrow
  DEF HeartbeatAuth, Known, EndpointKnown, HandlersKnown, Beating, Busy
<1>6. ASSUME SaveEnrolled PROVE HandlersKnown'
  BY <1>6, <1>same DEF SaveEnrolled
<1>7. ASSUME Scrub PROVE HandlersKnown'
  BY <1>7, <1>same DEF Scrub
<1>8. ASSUME SaveRotated PROVE HandlersKnown'
  BY <1>8, <1>same DEF SaveRotated
<1>9. ASSUME HeartbeatDenied PROVE HandlersKnown'
  BY <1>9, <1>same DEF HeartbeatDenied, vars
<1>10. ASSUME Restart PROVE HandlersKnown'
  BY <1>10, <1>same DEF Restart
<1>11. ASSUME NEW w \in Workers, EnrollCommit(w) PROVE HandlersKnown'
  BY <1>11, WorkerShape, OthersStay, IdsGrow
  DEF Known, HandlersKnown, Beating, Busy
<1>12. ASSUME NEW w \in Workers, UpdateHeartbeat(w) PROVE HandlersKnown'
  BY <1>12, WorkerShape, OthersStay, IdsGrow
  DEF Known, HandlersKnown, Beating, Busy, UpdateHeartbeat
<1>13. ASSUME NEW w \in Workers, ActivateSelect(w) PROVE HandlersKnown'
  BY <1>13, WorkerShape, OthersStay, IdsGrow
  DEF Known, HandlersKnown, Beating, Busy, ActivateSelect
<1>14. ASSUME NEW w \in Workers, ActivateUpdate(w) PROVE HandlersKnown'
  BY <1>14, WorkerShape, OthersStay, IdsGrow
  DEF Known, HandlersKnown, Beating, Busy
<1>15. ASSUME NEW w \in Workers, RotateUpdate(w) PROVE HandlersKnown'
  BY <1>15, WorkerShape, OthersStay, IdsGrow
  DEF Known, HandlersKnown, Beating, Busy
<1>16. ASSUME NEW i \in Ids, Revoke(i) PROVE HandlersKnown'
  BY <1>16, <1>same DEF Revoke
<1>17. ASSUME NEW i \in Ids, MarkOffline(i) PROVE HandlersKnown'
  BY <1>17, <1>same DEF MarkOffline
<1>18. ASSUME NEW w \in Workers, NEW i \in Ids, RotateSelect(w, i)
       PROVE  HandlersKnown'
  BY <1>18, RotateSelectShape, IdsGrow DEF Known, HandlersKnown, Beating, Busy
<1>19. ASSUME TokenEnds PROVE HandlersKnown'
  BY <1>19, <1>same DEF TokenEnds
<1>20. ASSUME Reprovision PROVE HandlersKnown'
  BY <1>20, <1>same DEF Reprovision
<1>21. ASSUME AgentTimesOut PROVE HandlersKnown'
  BY <1>21, AbandonShape, IdsGrow
  DEF AgentTimesOut, Known, HandlersKnown, Beating, Busy
<1>22. ASSUME NEW w \in Workers, RequestDies(w) PROVE HandlersKnown'
  BY <1>22, WorkerShape, OthersStay, IdsGrow
  DEF Known, HandlersKnown, Beating, Busy
<1>23. ASSUME WriteFails PROVE HandlersKnown'
  BY <1>23, <1>same DEF WriteFails
<1>24. ASSUME Crash PROVE HandlersKnown'
  BY <1>24, AbandonShape, IdsGrow
  DEF Crash, Known, HandlersKnown, Beating, Busy
<1>25. CASE UNCHANGED vars
  BY <1>25, <1>same DEF vars
<1> QED
  BY <1>1, <1>2, <1>3, <1>4, <1>5, <1>6, <1>7, <1>8, <1>9, <1>10, <1>11,
     <1>12, <1>13, <1>14, <1>15, <1>16, <1>17, <1>18, <1>19, <1>20, <1>21,
     <1>22, <1>23, <1>24, <1>25
  DEF Next, AgentStep, WorkerStep, AdminStep, FaultStep

\* A step starts at most one request of the endpoint, and one whose answer
\* moves the endpoint on is awaited no longer.
LEMMA AwaitingStep == Types /\ Known /\ Awaiting /\ [Next]_vars => Awaiting'
<1> SUFFICES ASSUME Types /\ Known /\ Awaiting, [Next]_vars PROVE Awaiting'
  OBVIOUS
<1>same. CASE UNCHANGED <<worker, pc, mem>>
  BY <1>same DEF Awaiting, Beating, Busy
<1>1. ASSUME Start PROVE Awaiting'
  <2>1. pc \notin {"enrollWait", "heartbeatWait"}
    BY <1>1 DEF Start
  <2>2. \A v \in Workers : ~worker[v].awaited
    BY <2>1 DEF Awaiting
  <2>3. QED
    BY <1>1, <2>2 DEF Start, Awaiting
<1>2. ASSUME StartFails PROVE Awaiting'
  <2>1. pc \notin {"enrollWait", "heartbeatWait"}
    BY <1>2 DEF StartFails
  <2>2. \A v \in Workers : ~worker[v].awaited
    BY <2>1 DEF Awaiting
  <2>3. QED
    BY <1>2, <2>2 DEF StartFails, Awaiting
<1>3. ASSUME EnrollRefused PROVE Awaiting'
  <2>1. pc \notin {"enrollWait", "heartbeatWait"}
    BY <1>3 DEF EnrollRefused, Enrolling
  <2>2. \A v \in Workers : ~worker[v].awaited
    BY <2>1 DEF Awaiting
  <2>3. QED
    BY <1>3, <2>2 DEF EnrollRefused, Awaiting
<1>4. ASSUME NEW w \in Workers, EnrollCheck(w) PROVE Awaiting'
  <2>1. pc \notin {"enrollWait", "heartbeatWait"}
    BY <1>4 DEF EnrollCheck, Enrolling
  <2>2. \A v \in Workers : ~worker[v].awaited
    BY <2>1 DEF Awaiting
  <2>3. QED
    BY <1>4, <2>2, WorkerShape, OthersStay DEF EnrollCheck, Awaiting, Busy
<1>5. ASSUME NEW w \in Workers, HeartbeatAuth(w) PROVE Awaiting'
  <2>1. pc \notin {"enrollWait", "heartbeatWait"}
    BY <1>5 DEF HeartbeatAuth
  <2>2. \A v \in Workers : ~worker[v].awaited
    BY <2>1 DEF Awaiting
  <2>3. QED
    BY <1>5, <2>2, WorkerShape, OthersStay
    DEF HeartbeatAuth, Awaiting, Beating
<1>6. ASSUME SaveEnrolled PROVE Awaiting'
  <2>1. pc \notin {"enrollWait", "heartbeatWait"}
    BY <1>6 DEF SaveEnrolled
  <2>2. \A v \in Workers : ~worker[v].awaited
    BY <2>1 DEF Awaiting
  <2>3. QED
    BY <1>6, <2>2 DEF SaveEnrolled, Awaiting
<1>7. ASSUME Scrub PROVE Awaiting'
  <2>1. pc \notin {"enrollWait", "heartbeatWait"}
    BY <1>7 DEF Scrub
  <2>2. \A v \in Workers : ~worker[v].awaited
    BY <2>1 DEF Awaiting
  <2>3. QED
    BY <1>7, <2>2 DEF Scrub, Awaiting
<1>8. ASSUME SaveRotated PROVE Awaiting'
  <2>1. pc \notin {"enrollWait", "heartbeatWait"}
    BY <1>8 DEF SaveRotated
  <2>2. \A v \in Workers : ~worker[v].awaited
    BY <2>1 DEF Awaiting
  <2>3. QED
    BY <1>8, <2>2 DEF SaveRotated, Awaiting
<1>9. ASSUME HeartbeatDenied PROVE Awaiting'
  BY <1>9, <1>same DEF HeartbeatDenied, vars
<1>10. ASSUME Restart PROVE Awaiting'
  <2>1. pc \notin {"enrollWait", "heartbeatWait"}
    BY <1>10 DEF Restart
  <2>2. \A v \in Workers : ~worker[v].awaited
    BY <2>1 DEF Awaiting
  <2>3. QED
    BY <1>10, <2>2 DEF Restart, Awaiting
<1>11. ASSUME NEW w \in Workers, EnrollCommit(w) PROVE Awaiting'
  <2>1. \A v \in Workers : v # w => worker'[v] = worker[v]
    BY <1>11, OthersStay
  <2>2. ~worker'[w].awaited
    BY <1>11, WorkerShape
  <2>3. CASE worker[w].awaited
    BY <2>1, <2>2, <2>3 DEF Awaiting
  <2>4. CASE ~worker[w].awaited
    <3>1. UNCHANGED <<pc, mem>>
      BY <1>11, <2>4 DEF EnrollCommit
    <3>2. QED
      BY <2>1, <2>2, <3>1 DEF Awaiting, Beating, Busy
  <2>5. QED
    BY <2>3, <2>4
<1>12. ASSUME NEW w \in Workers, UpdateHeartbeat(w) PROVE Awaiting'
  <2>1. \A v \in Workers : v # w => worker'[v] = worker[v]
    BY <1>12, OthersStay
  <2>2. /\ worker'[w].op = "deliver" /\ worker'[w].id = worker[w].id
        /\ worker'[w].awaited = worker[w].awaited
    BY <1>12, WorkerShape
  <2>3. UNCHANGED <<pc, mem>> /\ worker[w].op = "heartbeat"
    BY <1>12 DEF UpdateHeartbeat, Busy
  <2>4. QED
    BY <2>1, <2>2, <2>3 DEF Awaiting, Beating, Busy
<1>13. ASSUME NEW w \in Workers, ActivateSelect(w) PROVE Awaiting'
  <2>1. \A v \in Workers : v # w => worker'[v] = worker[v]
    BY <1>13, OthersStay
  <2>2. CASE worker'[w].op = "idle" /\ ~worker'[w].awaited
    <3>1. CASE worker[w].awaited
      BY <2>1, <2>2, <3>1 DEF Awaiting
    <3>2. CASE ~worker[w].awaited
      <4>1. UNCHANGED <<pc, mem>>
        BY <1>13, <3>2 DEF ActivateSelect
      <4>2. QED
        BY <2>1, <2>2, <4>1 DEF Awaiting, Beating, Busy
    <3>3. QED
      BY <3>1, <3>2
  <2>3. CASE /\ pc' = pc /\ worker'[w].op = "activate"
             /\ worker'[w].id = worker[w].id
             /\ worker'[w].awaited = worker[w].awaited
    <3>1. mem' = mem /\ worker[w].op = "deliver"
      BY <1>13 DEF ActivateSelect, Busy
    <3>2. QED
      BY <2>1, <2>3, <3>1 DEF Awaiting, Beating, Busy
  <2>4. QED
    BY <1>13, <2>2, <2>3, WorkerShape
<1>14. ASSUME NEW w \in Workers, ActivateUpdate(w) PROVE Awaiting'
  <2>1. \A v \in Workers : v # w => worker'[v] = worker[v]
    BY <1>14, OthersStay
  <2>2. ~worker'[w].awaited
    BY <1>14, WorkerShape
  <2>3. CASE worker[w].awaited
    BY <2>1, <2>2, <2>3 DEF Awaiting
  <2>4. CASE ~worker[w].awaited
    <3>1. UNCHANGED <<pc, mem>>
      BY <1>14, <2>4 DEF ActivateUpdate
    <3>2. QED
      BY <2>1, <2>2, <3>1 DEF Awaiting, Beating, Busy
  <2>5. QED
    BY <2>3, <2>4
<1>15. ASSUME NEW w \in Workers, RotateUpdate(w) PROVE Awaiting'
  <2>1. \A v \in Workers : v # w => worker'[v] = worker[v]
    BY <1>15, OthersStay
  <2>2. ~worker'[w].awaited
    BY <1>15, WorkerShape
  <2>3. UNCHANGED <<pc, mem>>
    BY <1>15 DEF RotateUpdate
  <2>4. QED
    BY <2>1, <2>2, <2>3 DEF Awaiting, Beating, Busy
<1>16. ASSUME NEW i \in Ids, Revoke(i) PROVE Awaiting'
  BY <1>16, <1>same DEF Revoke
<1>17. ASSUME NEW i \in Ids, MarkOffline(i) PROVE Awaiting'
  BY <1>17, <1>same DEF MarkOffline
<1>18. ASSUME NEW w \in Workers, NEW i \in Ids, RotateSelect(w, i)
       PROVE  Awaiting'
  <2>1. UNCHANGED <<pc, mem>>
    BY <1>18 DEF RotateSelect
  <2>2. QED
    BY <1>18, <2>1, RotateSelectShape DEF Awaiting, Beating, Busy
<1>19. ASSUME TokenEnds PROVE Awaiting'
  BY <1>19, <1>same DEF TokenEnds
<1>20. ASSUME Reprovision PROVE Awaiting'
  BY <1>20, <1>same DEF Reprovision
<1>21. ASSUME AgentTimesOut PROVE Awaiting'
  BY <1>21, AbandonShape DEF AgentTimesOut, Awaiting
<1>22. ASSUME NEW w \in Workers, RequestDies(w) PROVE Awaiting'
  <2>1. \A v \in Workers : v # w => worker'[v] = worker[v]
    BY <1>22, OthersStay
  <2>2. ~worker'[w].awaited
    BY <1>22, WorkerShape
  <2>3. CASE worker[w].awaited
    BY <2>1, <2>2, <2>3 DEF Awaiting
  <2>4. CASE ~worker[w].awaited
    <3>1. UNCHANGED <<pc, mem>>
      BY <1>22, <2>4 DEF RequestDies
    <3>2. QED
      BY <2>1, <2>2, <3>1 DEF Awaiting, Beating, Busy
  <2>5. QED
    BY <2>3, <2>4
<1>23. ASSUME WriteFails PROVE Awaiting'
  <2>1. pc \notin {"enrollWait", "heartbeatWait"}
    BY <1>23 DEF WriteFails
  <2>2. \A v \in Workers : ~worker[v].awaited
    BY <2>1 DEF Awaiting
  <2>3. QED
    BY <1>23, <2>2 DEF WriteFails, Awaiting
<1>24. ASSUME Crash PROVE Awaiting'
  BY <1>24, AbandonShape DEF Crash, Awaiting
<1>25. CASE UNCHANGED vars
  BY <1>25, <1>same DEF vars
<1> QED
  BY <1>1, <1>2, <1>3, <1>4, <1>5, <1>6, <1>7, <1>8, <1>9, <1>10, <1>11,
     <1>12, <1>13, <1>14, <1>15, <1>16, <1>17, <1>18, <1>19, <1>20, <1>21,
     <1>22, <1>23, <1>24, <1>25
  DEF Next, AgentStep, WorkerStep, AdminStep, FaultStep

\* What a thread carries was minted by a rotation, with the version it read.
LEMMA CarriedStep == Types /\ Known /\ Carried /\ [Next]_vars => Carried'
<1> SUFFICES ASSUME Types /\ Known /\ Carried, [Next]_vars PROVE Carried'
  OBVIOUS
<1>same. CASE UNCHANGED <<agents, worker>>
  BY <1>same DEF Carried, Busy, Ids
<1>1. ASSUME Start PROVE Carried'
  BY <1>1, <1>same DEF Start
<1>2. ASSUME StartFails PROVE Carried'
  BY <1>2, <1>same DEF StartFails
<1>3. ASSUME EnrollRefused PROVE Carried'
  BY <1>3, <1>same DEF EnrollRefused
<1>4. ASSUME NEW w \in Workers, EnrollCheck(w) PROVE Carried'
  <2>1. agents' = agents
    BY <1>4 DEF EnrollCheck
  <2>2. QED
    BY <1>4, <2>1, WorkerShape, OthersStay DEF Carried, Busy, Ids
<1>5. ASSUME NEW w \in Workers, HeartbeatAuth(w) PROVE Carried'
  <2>1. agents' = agents
    BY <1>5 DEF HeartbeatAuth
  <2>2. QED
    BY <1>5, <2>1, WorkerShape, OthersStay DEF Carried, Busy, Ids
<1>6. ASSUME SaveEnrolled PROVE Carried'
  BY <1>6, <1>same DEF SaveEnrolled
<1>7. ASSUME Scrub PROVE Carried'
  BY <1>7, <1>same DEF Scrub
<1>8. ASSUME SaveRotated PROVE Carried'
  BY <1>8, <1>same DEF SaveRotated
<1>9. ASSUME HeartbeatDenied PROVE Carried'
  BY <1>9, <1>same DEF HeartbeatDenied, vars
<1>10. ASSUME Restart PROVE Carried'
  BY <1>10, <1>same DEF Restart
<1>11. ASSUME NEW w \in Workers, EnrollCommit(w) PROVE Carried'
  <2>1. \A j \in Ids' : j \in Ids \/ j = Len(agents) + 1
    BY <1>11, EnrollShape, LenProperties DEF Ids
  <2>2. QED
    BY <1>11, <2>1, EnrollShape, WorkerShape, OthersStay DEF Carried, Busy
<1>12. ASSUME NEW w \in Workers, UpdateHeartbeat(w) PROVE Carried'
  BY <1>12, HeartbeatShape, WorkerShape, OthersStay DEF Carried, Busy
<1>13. ASSUME NEW w \in Workers, ActivateSelect(w) PROVE Carried'
  <2>1. agents' = agents /\ worker[w].id \in Ids
    BY <1>13 DEF ActivateSelect, Known, HandlersKnown, Beating, Busy
  <2>2. QED
    BY <1>13, <2>1, WorkerShape, OthersStay DEF Carried, Busy, Ids
<1>14. ASSUME NEW w \in Workers, ActivateUpdate(w) PROVE Carried'
  <2>1. worker[w].secret # 0 /\ worker[w].version # 0
    BY <1>14 DEF ActivateUpdate, Carried
  <2>2. QED
    BY <1>14, <2>1, ActivateShape, WorkerShape, OthersStay DEF Carried, Busy
<1>15. ASSUME NEW w \in Workers, RotateUpdate(w) PROVE Carried'
  <2>1. worker[w].secret # 0 /\ worker[w].version # 0
    BY <1>15 DEF RotateUpdate, Carried
  <2>2. QED
    <3>1. \A j \in Ids' :
              agents'[j].pending # 0 => agents'[j].pendingVersion # 0
      <4>1. ASSUME NEW j \in Ids
            PROVE  agents'[j].pending # 0 => agents'[j].pendingVersion # 0
        <5>1. CASE j = worker[w].id
          BY <1>15, <2>1, <5>1, RotateShape
        <5>2. CASE j # worker[w].id
          BY <1>15, <5>2, RotateShape DEF Carried
        <5>3. QED
          BY <5>1, <5>2
      <4>2. QED
        BY <1>15, <4>1, RotateShape
    <3>2. \A v \in Workers : v # w => worker'[v] = worker[v]
      BY <1>15, OthersStay
    <3>3. worker'[w].op = "idle"
      BY <1>15, WorkerShape
    <3>4. QED
      BY <3>1, <3>2, <3>3 DEF Carried, Busy
<1>16. ASSUME NEW i \in Ids, Revoke(i) PROVE Carried'
  <2>1. worker' = worker
    BY <1>16 DEF Revoke
  <2>2. QED
    BY <1>16, <2>1, RevokeShape DEF Carried, Busy
<1>17. ASSUME NEW i \in Ids, MarkOffline(i) PROVE Carried'
  <2>1. worker' = worker
    BY <1>17 DEF MarkOffline
  <2>2. QED
    BY <1>17, <2>1, OfflineShape DEF Carried, Busy
<1>18. ASSUME NEW w \in Workers, NEW i \in Ids, RotateSelect(w, i)
       PROVE  Carried'
  <2>1. agents' = agents /\ nextSecret # 0 /\ agents[i].version + 1 # 0
    BY <1>18, RowTyped DEF RotateSelect, Types, RowsOK, Agent
  <2>2. QED
    BY <1>18, <2>1, RotateSelectShape DEF Carried, Busy, Ids
<1>19. ASSUME TokenEnds PROVE Carried'
  BY <1>19, <1>same DEF TokenEnds
<1>20. ASSUME Reprovision PROVE Carried'
  BY <1>20, <1>same DEF Reprovision
<1>21. ASSUME AgentTimesOut PROVE Carried'
  <2>1. agents' = agents
    BY <1>21 DEF AgentTimesOut
  <2>2. QED
    BY <1>21, <2>1, AbandonShape DEF AgentTimesOut, Carried, Busy, Ids
<1>22. ASSUME NEW w \in Workers, RequestDies(w) PROVE Carried'
  <2>1. agents' = agents
    BY <1>22 DEF RequestDies
  <2>2. QED
    BY <1>22, <2>1, WorkerShape, OthersStay DEF Carried, Busy, Ids
<1>23. ASSUME WriteFails PROVE Carried'
  BY <1>23, <1>same DEF WriteFails
<1>24. ASSUME Crash PROVE Carried'
  <2>1. agents' = agents
    BY <1>24 DEF Crash
  <2>2. QED
    BY <1>24, <2>1, AbandonShape DEF Crash, Carried, Busy, Ids
<1>25. CASE UNCHANGED vars
  BY <1>25, <1>same DEF vars
<1> QED
  BY <1>1, <1>2, <1>3, <1>4, <1>5, <1>6, <1>7, <1>8, <1>9, <1>10, <1>11,
     <1>12, <1>13, <1>14, <1>15, <1>16, <1>17, <1>18, <1>19, <1>20, <1>21,
     <1>22, <1>23, <1>24, <1>25
  DEF Next, AgentStep, WorkerStep, AdminStep, FaultStep

-----------------------------------------------------------------------------
\* Counting identities, and keeping them

\* The pool of threads is finite, and so are the enrollments on it.
LEMMA EnrollsFinite ==
    ASSUME Types
    PROVE  /\ IsFiniteSet(Enrolls) /\ Cardinality(Enrolls) \in Nat
           /\ Len(agents) \in Nat /\ forgotten \in Nat
<1>1. IsFiniteSet(Enrolls)
  BY CredentialAssumption, FS_Subset DEF Enrolls
<1>2. QED
  BY <1>1, FS_CardinalityType, LenProperties DEF Types, HistoryOK

\* Minted holds as long as identities and enrollments under way do not get
\* more, and the endpoint keeps its own or a fault is counted.
LEMMA MintedFrom ==
    ASSUME Types, Types', Minted,
           Len(agents)' + Cardinality(Enrolls)'
               <= Len(agents) + Cardinality(Enrolls),
           \/ forgotten' = forgotten /\ (HasIdentity => HasIdentity')
           \/ forgotten' = forgotten + 1
    PROVE  Minted'
<1>1. /\ Cardinality(Enrolls) \in Nat /\ Len(agents) \in Nat /\ forgotten \in Nat
      /\ Cardinality(Enrolls)' \in Nat /\ Len(agents)' \in Nat
      /\ forgotten' \in Nat
  <2>1. IsFiniteSet(Enrolls')
    BY CredentialAssumption, FS_Subset DEF Enrolls
  <2>2. Cardinality(Enrolls') \in Nat
    BY <2>1, FS_CardinalityType
  <2>3. Len(agents)' \in Nat /\ forgotten' \in Nat
    BY LenProperties DEF Types, HistoryOK
  <2>4. QED
    BY <2>2, <2>3, EnrollsFinite
<1>2. QED
  BY <1>1 DEF Minted

\* A thread that begins or ends an enrollment.
LEMMA EnrollsGrow ==
    ASSUME Types, NEW w \in Workers, Enrolls' = Enrolls \cup {w}, w \notin Enrolls
    PROVE  Cardinality(Enrolls)' = Cardinality(Enrolls) + 1
BY EnrollsFinite, FS_AddElement

\* ... and one that ends.
LEMMA EnrollsShrink ==
    ASSUME Types, NEW w \in Workers, Enrolls' = Enrolls \ {w}
    PROVE  /\ Cardinality(Enrolls)' <= Cardinality(Enrolls)
           /\ w \in Enrolls => Cardinality(Enrolls)' = Cardinality(Enrolls) - 1
           /\ Cardinality(Enrolls)' \in Nat
<1>1. IsFiniteSet(Enrolls) /\ Cardinality(Enrolls) \in Nat
  BY EnrollsFinite
<1>2. /\ IsFiniteSet(Enrolls \ {w})
      /\ Cardinality(Enrolls \ {w}) =
            IF w \in Enrolls THEN Cardinality(Enrolls) - 1
                            ELSE Cardinality(Enrolls)
  BY <1>1, FS_RemoveElement
<1>3. Cardinality(Enrolls \ {w}) \in Nat
  BY <1>2, FS_CardinalityType
<1>4. QED
  BY <1>1, <1>2, <1>3

\* A step that adds an identity ends an enrollment, one that begins an
\* enrollment gives the endpoint the identity it had not, one that takes the
\* endpoint's identity is counted.
LEMMA MintedStep ==
    Types /\ Known /\ Carried /\ Awaiting /\ Minted /\ [Next]_vars => Minted'
<1> SUFFICES ASSUME Types /\ Known /\ Carried /\ Awaiting /\ Minted, [Next]_vars
             PROVE  Minted'
  OBVIOUS
<1>0. Types'
  BY TypesStep
<1>same. CASE UNCHANGED <<agents, worker, pc, disk, forgotten>>
  BY <1>same DEF Minted, Enrolls, Busy, HasIdentity, Loads
<1>1. ASSUME Start PROVE Minted'
  <2>1. /\ UNCHANGED <<agents, worker, forgotten>>
        /\ HasIdentity => HasIdentity'
    BY <1>1 DEF Start, history, HasIdentity, Loads
  <2>2. Len(agents)' + Cardinality(Enrolls)' <= Len(agents) + Cardinality(Enrolls)
    BY <2>1, EnrollsFinite DEF Enrolls, Busy
  <2>3. QED
    BY <1>0, <2>1, <2>2, MintedFrom
<1>2. ASSUME StartFails PROVE Minted'
  <2>1. /\ UNCHANGED <<agents, worker, forgotten>>
        /\ HasIdentity => HasIdentity'
    BY <1>2 DEF StartFails, history, HasIdentity, Loads
  <2>2. Len(agents)' + Cardinality(Enrolls)' <= Len(agents) + Cardinality(Enrolls)
    BY <2>1, EnrollsFinite DEF Enrolls, Busy
  <2>3. QED
    BY <1>0, <2>1, <2>2, MintedFrom
<1>3. ASSUME EnrollRefused PROVE Minted'
  <2>1. /\ UNCHANGED <<agents, worker, forgotten>>
        /\ HasIdentity => HasIdentity'
    BY <1>3 DEF EnrollRefused, history, HasIdentity, Enrolling
  <2>2. Len(agents)' + Cardinality(Enrolls)' <= Len(agents) + Cardinality(Enrolls)
    BY <2>1, EnrollsFinite DEF Enrolls, Busy
  <2>3. QED
    BY <1>0, <2>1, <2>2, MintedFrom
<1>4. ASSUME NEW w \in Workers, EnrollCheck(w) PROVE Minted'
  <2>1. /\ UNCHANGED <<agents, forgotten>>
        /\ ~HasIdentity /\ HasIdentity'
    BY <1>4 DEF EnrollCheck, history, HasIdentity, Enrolling
  <2>2. worker[w].op = "idle"
    BY <1>4 DEF EnrollCheck, Idle, IdleWorker
  <2>3. Enrolls' = Enrolls \cup {w} /\ w \notin Enrolls
    BY <1>4, <2>2, WorkerShape, OthersStay DEF Enrolls, Busy
  <2>4. Cardinality(Enrolls)' = Cardinality(Enrolls) + 1
    BY <2>3, EnrollsGrow
  <2>5. QED
    BY <2>1, <2>4, EnrollsFinite DEF Minted
<1>5. ASSUME NEW w \in Workers, HeartbeatAuth(w) PROVE Minted'
  <2>1. /\ UNCHANGED <<forgotten>> /\ Len(agents') = Len(agents)
        /\ HasIdentity => HasIdentity'
    BY <1>5 DEF HeartbeatAuth, history, HasIdentity, Loads
  <2>2. Enrolls' = Enrolls
    BY <1>5, WorkerShape, OthersStay
    DEF HeartbeatAuth, Idle, IdleWorker, Enrolls, Busy
  <2>3. QED
    BY <1>0, <2>1, <2>2, EnrollsFinite, MintedFrom
<1>6. ASSUME SaveEnrolled PROVE Minted'
  <2>1. /\ UNCHANGED <<agents, worker, forgotten>>
        /\ HasIdentity => HasIdentity'
    BY <1>6, FilesAssumption
    DEF SaveEnrolled, history, HasIdentity, Loads, Known, EndpointKnown
  <2>2. Len(agents)' + Cardinality(Enrolls)' <= Len(agents) + Cardinality(Enrolls)
    BY <2>1, EnrollsFinite DEF Enrolls, Busy
  <2>3. QED
    BY <1>0, <2>1, <2>2, MintedFrom
<1>7. ASSUME Scrub PROVE Minted'
  <2>1. /\ UNCHANGED <<agents, worker, forgotten>>
        /\ HasIdentity => HasIdentity'
    BY <1>7 DEF Scrub, history, HasIdentity, Loads
  <2>2. Len(agents)' + Cardinality(Enrolls)' <= Len(agents) + Cardinality(Enrolls)
    BY <2>1, EnrollsFinite DEF Enrolls, Busy
  <2>3. QED
    BY <1>0, <2>1, <2>2, MintedFrom
<1>8. ASSUME SaveRotated PROVE Minted'
  <2>1. /\ UNCHANGED <<agents, worker, forgotten>>
        /\ HasIdentity => HasIdentity'
    BY <1>8, FilesAssumption
    DEF SaveRotated, history, HasIdentity, Loads, Known, EndpointKnown
  <2>2. Len(agents)' + Cardinality(Enrolls)' <= Len(agents) + Cardinality(Enrolls)
    BY <2>1, EnrollsFinite DEF Enrolls, Busy
  <2>3. QED
    BY <1>0, <2>1, <2>2, MintedFrom
<1>9. ASSUME HeartbeatDenied PROVE Minted'
  BY <1>9, <1>same DEF HeartbeatDenied, vars, history
<1>10. ASSUME Restart PROVE Minted'
  <2>1. /\ UNCHANGED <<agents, worker, forgotten>>
        /\ HasIdentity => HasIdentity'
    BY <1>10 DEF Restart, history, HasIdentity, Loads
  <2>2. Len(agents)' + Cardinality(Enrolls)' <= Len(agents) + Cardinality(Enrolls)
    BY <2>1, EnrollsFinite DEF Enrolls, Busy
  <2>3. QED
    BY <1>0, <2>1, <2>2, MintedFrom
<1>11. ASSUME NEW w \in Workers, EnrollCommit(w) PROVE Minted'
  <2>1. worker[w].awaited => pc = "enrollWait"
    BY <1>11 DEF EnrollCommit, Awaiting, Beating, Busy
  <2>2. forgotten' = forgotten /\ (HasIdentity => HasIdentity')
    BY <1>11, <2>1 DEF EnrollCommit, history, HasIdentity, Loads
  <2>3. Enrolls' = Enrolls \ {w} /\ w \in Enrolls
    BY <1>11, WorkerShape, OthersStay DEF EnrollCommit, Enrolls, Busy
  <2>4. Len(agents') = Len(agents) + 1
    BY <1>11, EnrollShape
  <2>5. Cardinality(Enrolls)' = Cardinality(Enrolls) - 1
    BY <2>3, EnrollsShrink
  <2>6. QED
    BY <1>0, <2>2, <2>4, <2>5, EnrollsFinite, MintedFrom
<1>12. ASSUME NEW w \in Workers, UpdateHeartbeat(w) PROVE Minted'
  <2>1. /\ UNCHANGED <<forgotten>> /\ Len(agents') = Len(agents)
        /\ HasIdentity => HasIdentity'
    BY <1>12, HeartbeatShape DEF UpdateHeartbeat, history, HasIdentity, Loads
  <2>2. Enrolls' = Enrolls
    BY <1>12, WorkerShape, OthersStay DEF UpdateHeartbeat, Enrolls, Busy
  <2>3. QED
    BY <1>0, <2>1, <2>2, EnrollsFinite, MintedFrom
<1>13. ASSUME NEW w \in Workers, ActivateSelect(w) PROVE Minted'
  <2>0. worker[w].awaited => pc = "heartbeatWait"
    BY <1>13 DEF ActivateSelect, Awaiting, Busy
  <2>1. /\ UNCHANGED <<forgotten>> /\ Len(agents') = Len(agents)
        /\ HasIdentity => HasIdentity'
    BY <1>13, <2>0 DEF ActivateSelect, history, HasIdentity, Loads
  <2>2. Enrolls' = Enrolls
    BY <1>13, WorkerShape, OthersStay DEF ActivateSelect, Enrolls, Busy
  <2>3. QED
    BY <1>0, <2>1, <2>2, EnrollsFinite, MintedFrom
<1>14. ASSUME NEW w \in Workers, ActivateUpdate(w) PROVE Minted'
  <2>0. worker[w].awaited => pc = "heartbeatWait"
    BY <1>14 DEF ActivateUpdate, Awaiting, Busy
  <2>1. /\ UNCHANGED <<forgotten>> /\ Len(agents') = Len(agents)
        /\ HasIdentity => HasIdentity'
    BY <1>14, <2>0, ActivateShape
    DEF ActivateUpdate, Carried, history, HasIdentity, Loads
  <2>2. Enrolls' = Enrolls
    BY <1>14, WorkerShape, OthersStay DEF ActivateUpdate, Enrolls, Busy
  <2>3. QED
    BY <1>0, <2>1, <2>2, EnrollsFinite, MintedFrom
<1>15. ASSUME NEW w \in Workers, RotateUpdate(w) PROVE Minted'
  <2>1. /\ UNCHANGED <<forgotten>> /\ Len(agents') = Len(agents)
        /\ HasIdentity => HasIdentity'
    BY <1>15, RotateShape DEF RotateUpdate, HasIdentity, Loads
  <2>2. Enrolls' = Enrolls
    BY <1>15, WorkerShape, OthersStay DEF RotateUpdate, Enrolls, Busy
  <2>3. QED
    BY <1>0, <2>1, <2>2, EnrollsFinite, MintedFrom
<1>16. ASSUME NEW i \in Ids, Revoke(i) PROVE Minted'
  <2>1. /\ UNCHANGED <<forgotten>> /\ Len(agents') = Len(agents)
        /\ HasIdentity => HasIdentity'
    BY <1>16, RevokeShape DEF Revoke, history, HasIdentity, Loads
  <2>2. Enrolls' = Enrolls
    BY <1>16 DEF Revoke, Enrolls, Busy
  <2>3. QED
    BY <1>0, <2>1, <2>2, EnrollsFinite, MintedFrom
<1>17. ASSUME NEW i \in Ids, MarkOffline(i) PROVE Minted'
  <2>1. /\ UNCHANGED <<forgotten>> /\ Len(agents') = Len(agents)
        /\ HasIdentity => HasIdentity'
    BY <1>17, OfflineShape DEF MarkOffline, history, HasIdentity, Loads
  <2>2. Enrolls' = Enrolls
    BY <1>17 DEF MarkOffline, Enrolls, Busy
  <2>3. QED
    BY <1>0, <2>1, <2>2, EnrollsFinite, MintedFrom
<1>18. ASSUME NEW w \in Workers, NEW i \in Ids, RotateSelect(w, i)
       PROVE  Minted'
  <2>1. /\ UNCHANGED <<forgotten>> /\ Len(agents') = Len(agents)
        /\ HasIdentity => HasIdentity'
    BY <1>18 DEF RotateSelect, HasIdentity, Loads
  <2>2. Enrolls' = Enrolls
    <3>1. worker[w].op = "idle"
      BY <1>18 DEF RotateSelect, Idle, IdleWorker
    <3>2. QED
      BY <1>18, <3>1, RotateSelectShape DEF Enrolls, Busy
  <2>3. QED
    BY <1>0, <2>1, <2>2, EnrollsFinite, MintedFrom
<1>19. ASSUME TokenEnds PROVE Minted'
  BY <1>19, <1>same DEF TokenEnds, history
<1>20. ASSUME Reprovision PROVE Minted'
  <2>1. /\ UNCHANGED <<agents, worker, forgotten>>
        /\ HasIdentity => HasIdentity'
    BY <1>20 DEF Reprovision, HasIdentity
  <2>2. Len(agents)' + Cardinality(Enrolls)' <= Len(agents) + Cardinality(Enrolls)
    BY <2>1, EnrollsFinite DEF Enrolls, Busy
  <2>3. QED
    BY <1>0, <2>1, <2>2, MintedFrom
<1>21. ASSUME AgentTimesOut PROVE Minted'
  <2>1. \/ forgotten' = forgotten /\ (HasIdentity => HasIdentity')
        \/ forgotten' = forgotten + 1
    <3>1. PICK w \in Workers : worker[w].awaited
      BY <1>21 DEF AgentTimesOut
    <3>2. pc \in {"enrollWait", "heartbeatWait"}
      BY <3>1 DEF Awaiting
    <3>3. QED
      BY <1>21, <3>2 DEF AgentTimesOut, Fault, HasIdentity, Loads
  <2>2. agents' = agents /\ Enrolls' = Enrolls
    BY <1>21, AbandonShape DEF AgentTimesOut, Enrolls, Busy
  <2>3. QED
    BY <1>0, <2>1, <2>2, EnrollsFinite, MintedFrom
<1>22. ASSUME NEW w \in Workers, RequestDies(w) PROVE Minted'
  <2>1. \/ forgotten' = forgotten /\ (HasIdentity => HasIdentity')
        \/ forgotten' = forgotten + 1
    <3>1. worker[w].awaited => pc \in {"enrollWait", "heartbeatWait"}
      BY DEF Awaiting
    <3>2. pc = "enrollWait" => forgotten' = forgotten + 1
      BY <1>22 DEF RequestDies, Fault
    <3>3. /\ disk' = disk /\ forgotten' \in {forgotten, forgotten + 1}
          /\ pc' = pc \/ (worker[w].awaited /\ CallFails)
      BY <1>22 DEF RequestDies, Fault
    <3>4. QED
      BY <3>1, <3>2, <3>3 DEF HasIdentity, Loads
  <2>2. agents' = agents /\ Enrolls' = Enrolls \ {w}
    BY <1>22, WorkerShape, OthersStay DEF RequestDies, Enrolls, Busy
  <2>3. Cardinality(Enrolls)' <= Cardinality(Enrolls) /\ Cardinality(Enrolls)' \in Nat
    BY <2>2, EnrollsShrink
  <2>4. Len(agents)' + Cardinality(Enrolls)' <= Len(agents) + Cardinality(Enrolls)
    BY <2>2, <2>3, EnrollsFinite
  <2>5. QED
    BY <1>0, <2>1, <2>4, MintedFrom
<1>23. ASSUME WriteFails PROVE Minted'
  <2>1. \/ forgotten' = forgotten /\ (HasIdentity => HasIdentity')
        \/ forgotten' = forgotten + 1
    <3>1. disk' \in {disk, Torn}
      BY <1>23 DEF WriteFails, DiskAfterInterruption, Interrupted
    <3>2. \/ /\ forgotten' = forgotten /\ (disk' = disk \/ ~Loads)
             /\ pc \notin {"enrollWait", "saveEnrolled"}
          \/ forgotten' = forgotten + 1
      BY <1>23, <3>1 DEF WriteFails, Fault
    <3>3. QED
      BY <3>2 DEF HasIdentity, Loads
  <2>2. agents' = agents /\ Enrolls' = Enrolls
    BY <1>23, AbandonShape DEF WriteFails, Enrolls, Busy
  <2>3. QED
    BY <1>0, <2>1, <2>2, EnrollsFinite, MintedFrom
<1>24. ASSUME Crash PROVE Minted'
  <2>1. \/ forgotten' = forgotten /\ (HasIdentity => HasIdentity')
        \/ forgotten' = forgotten + 1
    <3>1. disk' \in {disk, Torn}
      BY <1>24 DEF Crash, DiskAfterInterruption, Interrupted
    <3>2. \/ /\ forgotten' = forgotten /\ (disk' = disk \/ ~Loads)
             /\ pc \notin {"enrollWait", "saveEnrolled"}
          \/ forgotten' = forgotten + 1
      BY <1>24, <3>1 DEF Crash, Fault
    <3>3. QED
      BY <3>2 DEF HasIdentity, Loads
  <2>2. agents' = agents /\ Enrolls' = Enrolls
    BY <1>24, AbandonShape DEF Crash, Enrolls, Busy
  <2>3. QED
    BY <1>0, <2>1, <2>2, EnrollsFinite, MintedFrom
<1>25. CASE UNCHANGED vars
  BY <1>25, <1>same DEF vars, history
<1> QED
  BY <1>1, <1>2, <1>3, <1>4, <1>5, <1>6, <1>7, <1>8, <1>9, <1>10, <1>11,
     <1>12, <1>13, <1>14, <1>15, <1>16, <1>17, <1>18, <1>19, <1>20, <1>21,
     <1>22, <1>23, <1>24, <1>25
  DEF Next, AgentStep, WorkerStep, AdminStep, FaultStep

\* The token is scrubbed, and the next cycle begun, after the state is saved.
LEMMA KeptStep ==
    Types /\ Known /\ Carried /\ Awaiting /\ Kept /\ [Next]_vars => Kept'
<1> SUFFICES ASSUME Types /\ Known /\ Carried /\ Awaiting /\ Kept, [Next]_vars
             PROVE  Kept'
  OBVIOUS
<1>same. CASE UNCHANGED <<config, pc, disk, mem, faults>>
  BY <1>same DEF Kept
<1>1. ASSUME Start PROVE Kept'
  BY <1>1 DEF Start, Kept
<1>2. ASSUME StartFails PROVE Kept'
  BY <1>2 DEF StartFails, Kept
<1>3. ASSUME EnrollRefused PROVE Kept'
  BY <1>3 DEF EnrollRefused, Kept
<1>4. ASSUME NEW w \in Workers, EnrollCheck(w) PROVE Kept'
  BY <1>4 DEF EnrollCheck, Kept
<1>5. ASSUME NEW w \in Workers, HeartbeatAuth(w) PROVE Kept'
  BY <1>5 DEF HeartbeatAuth, history, Kept
<1>6. ASSUME SaveEnrolled PROVE Kept'
  BY <1>6, FilesAssumption DEF SaveEnrolled, Kept, Known, EndpointKnown
<1>7. ASSUME Scrub PROVE Kept'
  BY <1>7 DEF Scrub, history, Kept
<1>8. ASSUME SaveRotated PROVE Kept'
  BY <1>8, FilesAssumption DEF SaveRotated, Kept, Known, EndpointKnown
<1>9. ASSUME HeartbeatDenied PROVE Kept'
  BY <1>9, <1>same DEF HeartbeatDenied, vars, history
<1>10. ASSUME Restart PROVE Kept'
  BY <1>10 DEF Restart, Kept
<1>11. ASSUME NEW w \in Workers, EnrollCommit(w) PROVE Kept'
  <2>1. worker[w].awaited => pc = "enrollWait"
    BY <1>11 DEF EnrollCommit, Awaiting, Beating, Busy
  <2>2. QED
    BY <1>11, <2>1 DEF EnrollCommit, history, Kept
<1>12. ASSUME NEW w \in Workers, UpdateHeartbeat(w) PROVE Kept'
  BY <1>12, <1>same DEF UpdateHeartbeat, history
<1>13. ASSUME NEW w \in Workers, ActivateSelect(w) PROVE Kept'
  <2>1. worker[w].awaited => pc = "heartbeatWait"
    BY <1>13 DEF ActivateSelect, Awaiting, Busy
  <2>2. /\ UNCHANGED <<config, disk, mem, faults>>
        /\ pc' = pc \/ (worker[w].awaited /\ pc' = "cycle")
    BY <1>13 DEF ActivateSelect, history
  <2>3. QED
    BY <2>1, <2>2 DEF Kept
<1>14. ASSUME NEW w \in Workers, ActivateUpdate(w) PROVE Kept'
  <2>1. worker[w].awaited => pc = "heartbeatWait"
    BY <1>14 DEF ActivateUpdate, Awaiting, Busy
  <2>2. /\ UNCHANGED <<config, disk, faults>>
        /\ \/ pc' = "saveRotated"
           \/ mem' = mem /\ (pc' = pc \/ (worker[w].awaited /\ pc' = "cycle"))
    BY <1>14 DEF ActivateUpdate, history
  <2>3. QED
    BY <2>1, <2>2 DEF Kept
<1>15. ASSUME NEW w \in Workers, RotateUpdate(w) PROVE Kept'
  BY <1>15, <1>same DEF RotateUpdate
<1>16. ASSUME NEW i \in Ids, Revoke(i) PROVE Kept'
  BY <1>16, <1>same DEF Revoke, history
<1>17. ASSUME NEW i \in Ids, MarkOffline(i) PROVE Kept'
  BY <1>17, <1>same DEF MarkOffline, history
<1>18. ASSUME NEW w \in Workers, NEW i \in Ids, RotateSelect(w, i) PROVE Kept'
  BY <1>18, <1>same DEF RotateSelect
<1>19. ASSUME TokenEnds PROVE Kept'
  BY <1>19, <1>same DEF TokenEnds, history
<1>20. ASSUME Reprovision PROVE Kept'
  BY <1>20 DEF Reprovision, Kept
<1>21. ASSUME AgentTimesOut PROVE Kept'
  <2>1. faults' # 0
    BY <1>21 DEF AgentTimesOut, Fault, Types, HistoryOK
  <2>2. /\ UNCHANGED <<config, disk>>
        /\ pc' = pc \/ pc' \in {"stopped", "cycle"}
    BY <1>21 DEF AgentTimesOut, CallFails
  <2>3. QED
    BY <2>1, <2>2 DEF Kept
<1>22. ASSUME NEW w \in Workers, RequestDies(w) PROVE Kept'
  <2>1. faults' # 0
    BY <1>22 DEF RequestDies, Fault, Types, HistoryOK
  <2>2. /\ UNCHANGED <<config, disk>>
        /\ pc' = pc \/ pc' \in {"stopped", "cycle"}
    BY <1>22 DEF RequestDies, CallFails
  <2>3. QED
    BY <2>1, <2>2 DEF Kept
<1>23. ASSUME WriteFails PROVE Kept'
  <2>1. faults' # 0
    BY <1>23 DEF WriteFails, Fault, Types, HistoryOK
  <2>2. /\ disk' \in {disk, Torn} /\ pc' # "scrub"
        /\ config' = config \/ pc = "scrub"
    BY <1>23
    DEF WriteFails, DiskAfterInterruption, ConfigAfterInterruption,
        Interrupted
  <2>3. QED
    BY <2>1, <2>2, FilesAssumption DEF Kept
<1>24. ASSUME Crash PROVE Kept'
  <2>1. faults' # 0
    BY <1>24 DEF Crash, Fault, Types, HistoryOK
  <2>2. /\ disk' \in {disk, Torn} /\ pc' # "scrub"
        /\ config' = config \/ pc = "scrub"
    BY <1>24
    DEF Crash, DiskAfterInterruption, ConfigAfterInterruption, Interrupted
  <2>3. QED
    BY <2>1, <2>2, FilesAssumption DEF Kept
<1>25. CASE UNCHANGED vars
  BY <1>25, <1>same DEF vars, history
<1> QED
  BY <1>1, <1>2, <1>3, <1>4, <1>5, <1>6, <1>7, <1>8, <1>9, <1>10, <1>11,
     <1>12, <1>13, <1>14, <1>15, <1>16, <1>17, <1>18, <1>19, <1>20, <1>21,
     <1>22, <1>23, <1>24, <1>25
  DEF Next, AgentStep, WorkerStep, AdminStep, FaultStep

-----------------------------------------------------------------------------
\* In step while nothing went wrong

\* A step the invariants so far describe, before and after which nothing went
\* wrong.
Calm ==
    /\ Types /\ Known /\ Carried /\ Awaiting
    /\ EndpointInStep /\ RowsInStep /\ HandlersInStep
    /\ faults = 0 /\ faults' = 0 /\ ~raced'

\* In such a step there is one heartbeat at most, and it is awaited.
LEMMA CalmFacts ==
    ASSUME Calm
    PROVE  /\ Types /\ Known /\ Carried
           /\ \A i \in Ids : agents[i] \in Agent /\ agents[i].version \in Nat
           /\ \A w \in Workers : Beating(w) =>
                 /\ worker[w].awaited /\ pc = "heartbeatWait"
                 /\ worker[w].id = mem.id /\ worker[w].id \in Ids
                 /\ \A v \in Workers : Beating(v) => v = w
           /\ pc \notin {"start", "stopped", "enrollWait"} =>
                 /\ mem \in State /\ mem.id \in Ids
                 /\ agents[mem.id].secret = mem.secret
                 /\ agents[mem.id].version = mem.version
<1>1. \A i \in Ids : agents[i] \in Agent /\ agents[i].version \in Nat
  BY RowTyped DEF Calm, Agent
<1>2. ASSUME NEW w \in Workers, Beating(w)
      PROVE  /\ worker[w].awaited /\ pc = "heartbeatWait"
             /\ worker[w].id = mem.id /\ worker[w].id \in Ids
             /\ \A v \in Workers : Beating(v) => v = w
  <2>1. \A v \in Workers : Beating(v) => worker[v].awaited
    BY DEF Calm, HandlersInStep
  <2>2. ~Busy(w, "enroll")
    BY <1>2 DEF Beating, Busy
  <2>3. QED
    BY <1>2, <2>1, <2>2 DEF Calm, Awaiting, Known, HandlersKnown
<1>3. QED
  BY <1>1, <1>2 DEF Calm, Known, EndpointKnown, EndpointInStep

\* The endpoint takes what the backend makes its credential ...
LEMMA EndpointInStepStep == Calm /\ [Next]_vars => EndpointInStep'
<1> SUFFICES ASSUME Calm, [Next]_vars PROVE EndpointInStep'
  OBVIOUS
<1>same. CASE UNCHANGED <<agents, pc, mem, disk>>
  BY <1>same DEF Calm, EndpointInStep, Loads
<1>1. ASSUME Start PROVE EndpointInStep'
  BY <1>1 DEF Start, Calm, EndpointInStep
<1>2. ASSUME StartFails PROVE EndpointInStep'
  BY <1>2 DEF StartFails, Calm, EndpointInStep, Loads
<1>3. ASSUME EnrollRefused PROVE EndpointInStep'
  BY <1>3 DEF EnrollRefused, Enrolling, Calm, EndpointInStep, Loads
<1>4. ASSUME NEW w \in Workers, EnrollCheck(w) PROVE EndpointInStep'
  BY <1>4 DEF EnrollCheck, Calm, EndpointInStep
<1>5. ASSUME NEW w \in Workers, HeartbeatAuth(w) PROVE EndpointInStep'
  BY <1>5 DEF HeartbeatAuth, Calm, EndpointInStep
<1>6. ASSUME SaveEnrolled PROVE EndpointInStep'
  BY <1>6 DEF SaveEnrolled, Calm, EndpointInStep
<1>7. ASSUME Scrub PROVE EndpointInStep'
  BY <1>7 DEF Scrub, Calm, EndpointInStep
<1>8. ASSUME SaveRotated PROVE EndpointInStep'
  BY <1>8 DEF SaveRotated, Calm, EndpointInStep
<1>9. ASSUME HeartbeatDenied PROVE EndpointInStep'
  BY <1>9, <1>same DEF HeartbeatDenied, vars
<1>10. ASSUME Restart PROVE EndpointInStep'
  BY <1>10 DEF Restart, Calm, EndpointInStep, Loads
<1>11. ASSUME NEW w \in Workers, EnrollCommit(w) PROVE EndpointInStep'
  <2>1. /\ \A j \in Ids : agents'[j] = agents[j]
        /\ agents'[Len(agents) + 1].secret = nextSecret
        /\ agents'[Len(agents) + 1].version = 1
    BY <1>11, CalmFacts, EnrollShape
  <2>2. CASE worker[w].awaited
    BY <1>11, <2>1, <2>2 DEF EnrollCommit, Calm, EndpointInStep
  <2>3. CASE ~worker[w].awaited
    <3>1. UNCHANGED <<pc, mem, disk>>
      BY <1>11, <2>3 DEF EnrollCommit
    <3>2. QED
      BY <2>1, <3>1, CalmFacts DEF Calm, EndpointInStep, Loads
  <2>4. QED
    BY <2>2, <2>3
<1>12. ASSUME NEW w \in Workers, UpdateHeartbeat(w) PROVE EndpointInStep'
  <2>1. \A j \in Ids : /\ agents'[j].secret = agents[j].secret
                      /\ agents'[j].version = agents[j].version
    BY <1>12, CalmFacts, HeartbeatShape
  <2>2. UNCHANGED <<pc, mem, disk>>
    BY <1>12 DEF UpdateHeartbeat
  <2>3. QED
    BY <2>1, <2>2, CalmFacts DEF Calm, EndpointInStep, Loads
<1>13. ASSUME NEW w \in Workers, ActivateSelect(w) PROVE EndpointInStep'
  <2>1. Beating(w)
    BY <1>13 DEF ActivateSelect, Beating, Busy
  <2>2. pc = "heartbeatWait" /\ pc' \in {"heartbeatWait", "cycle"}
    BY <1>13, <2>1, CalmFacts DEF ActivateSelect
  <2>3. UNCHANGED <<agents, mem, disk>>
    BY <1>13 DEF ActivateSelect
  <2>4. QED
    BY <2>2, <2>3 DEF Calm, EndpointInStep
<1>14. ASSUME NEW w \in Workers, ActivateUpdate(w) PROVE EndpointInStep'
  <2>1. Beating(w)
    BY <1>14 DEF ActivateUpdate, Beating, Busy
  <2>2. /\ worker[w].awaited /\ worker[w].id = mem.id /\ mem.id \in Ids
        /\ mem \in State /\ agents[mem.id].version = mem.version
        /\ mem.version \in Nat
    BY <2>1, CalmFacts DEF State
  <2>3. worker[w].version = mem.version + 1 /\ worker[w].secret # 0
    BY <1>14, <2>2 DEF ActivateUpdate, Calm, HandlersInStep, Carried
  <2>4. Adopts(worker[w].version)
    BY <2>2, <2>3 DEF Adopts
  <2>5. /\ mem' = [mem EXCEPT !.secret = worker[w].secret,
                             !.version = worker[w].version]
        /\ pc' = "saveRotated"
    BY <1>14, <2>2, <2>4 DEF ActivateUpdate
  <2>6. /\ mem'.id = mem.id /\ mem'.secret = worker[w].secret
        /\ mem'.version = worker[w].version
    BY <2>2, <2>5 DEF State
  <2>7. /\ agents'[mem.id].secret = worker[w].secret
        /\ agents'[mem.id].version = worker[w].version
    BY <1>14, <2>2, <2>3, CalmFacts, ActivateShape
  <2>8. QED
    BY <2>5, <2>6, <2>7 DEF EndpointInStep
<1>15. ASSUME NEW w \in Workers, RotateUpdate(w) PROVE EndpointInStep'
  <2>1. \A j \in Ids : /\ agents'[j].secret = agents[j].secret
                      /\ agents'[j].version = agents[j].version
    BY <1>15, CalmFacts, RotateShape
  <2>2. UNCHANGED <<pc, mem, disk>>
    BY <1>15 DEF RotateUpdate
  <2>3. QED
    BY <2>1, <2>2, CalmFacts DEF Calm, EndpointInStep, Loads
<1>16. ASSUME NEW i \in Ids, Revoke(i) PROVE EndpointInStep'
  <2>1. \A j \in Ids : /\ agents'[j].secret = agents[j].secret
                      /\ agents'[j].version = agents[j].version
    BY <1>16, CalmFacts, RevokeShape
  <2>2. UNCHANGED <<pc, mem, disk>>
    BY <1>16 DEF Revoke
  <2>3. QED
    BY <2>1, <2>2, CalmFacts DEF Calm, EndpointInStep, Loads
<1>17. ASSUME NEW i \in Ids, MarkOffline(i) PROVE EndpointInStep'
  <2>1. \A j \in Ids : /\ agents'[j].secret = agents[j].secret
                      /\ agents'[j].version = agents[j].version
    BY <1>17, CalmFacts, OfflineShape
  <2>2. UNCHANGED <<pc, mem, disk>>
    BY <1>17 DEF MarkOffline
  <2>3. QED
    BY <2>1, <2>2, CalmFacts DEF Calm, EndpointInStep, Loads
<1>18. ASSUME NEW w \in Workers, NEW i \in Ids, RotateSelect(w, i)
       PROVE  EndpointInStep'
  BY <1>18, <1>same DEF RotateSelect
<1>19. ASSUME TokenEnds PROVE EndpointInStep'
  BY <1>19, <1>same DEF TokenEnds
<1>20. ASSUME Reprovision PROVE EndpointInStep'
  BY <1>20 DEF Reprovision, Calm, EndpointInStep, Loads
<1>21. ASSUME AgentTimesOut PROVE EndpointInStep'
  <2>1. faults' = faults + 1
    BY <1>21 DEF AgentTimesOut, Fault
  <2>2. QED
    BY <2>1 DEF Calm
<1>22. ASSUME NEW w \in Workers, RequestDies(w) PROVE EndpointInStep'
  <2>1. faults' = faults + 1
    BY <1>22 DEF RequestDies, Fault
  <2>2. QED
    BY <2>1 DEF Calm
<1>23. ASSUME WriteFails PROVE EndpointInStep'
  <2>1. faults' = faults + 1
    BY <1>23 DEF WriteFails, Fault
  <2>2. QED
    BY <2>1 DEF Calm
<1>24. ASSUME Crash PROVE EndpointInStep'
  <2>1. faults' = faults + 1
    BY <1>24 DEF Crash, Fault
  <2>2. QED
    BY <2>1 DEF Calm
<1>25. CASE UNCHANGED vars
  BY <1>25, <1>same DEF vars
<1> QED
  BY <1>1, <1>2, <1>3, <1>4, <1>5, <1>6, <1>7, <1>8, <1>9, <1>10, <1>11,
     <1>12, <1>13, <1>14, <1>15, <1>16, <1>17, <1>18, <1>19, <1>20, <1>21,
     <1>22, <1>23, <1>24, <1>25
  DEF Next, AgentStep, WorkerStep, AdminStep, FaultStep

\* ... a rotation that did not race is one version ahead ...
LEMMA RowsInStepStep == Calm /\ [Next]_vars => RowsInStep'
<1> SUFFICES ASSUME Calm, [Next]_vars PROVE RowsInStep'
  OBVIOUS
<1>same. CASE UNCHANGED <<agents>>
  BY <1>same DEF Calm, RowsInStep, Ids
<1>1. ASSUME Start PROVE RowsInStep'
  BY <1>1, <1>same DEF Start
<1>2. ASSUME StartFails PROVE RowsInStep'
  BY <1>2, <1>same DEF StartFails
<1>3. ASSUME EnrollRefused PROVE RowsInStep'
  BY <1>3, <1>same DEF EnrollRefused
<1>4. ASSUME NEW w \in Workers, EnrollCheck(w) PROVE RowsInStep'
  BY <1>4, <1>same DEF EnrollCheck
<1>5. ASSUME NEW w \in Workers, HeartbeatAuth(w) PROVE RowsInStep'
  BY <1>5, <1>same DEF HeartbeatAuth
<1>6. ASSUME SaveEnrolled PROVE RowsInStep'
  BY <1>6, <1>same DEF SaveEnrolled
<1>7. ASSUME Scrub PROVE RowsInStep'
  BY <1>7, <1>same DEF Scrub
<1>8. ASSUME SaveRotated PROVE RowsInStep'
  BY <1>8, <1>same DEF SaveRotated
<1>9. ASSUME HeartbeatDenied PROVE RowsInStep'
  BY <1>9, <1>same DEF HeartbeatDenied, vars
<1>10. ASSUME Restart PROVE RowsInStep'
  BY <1>10, <1>same DEF Restart
<1>11. ASSUME NEW w \in Workers, EnrollCommit(w) PROVE RowsInStep'
  <2>1. /\ \A j \in Ids : agents'[j] = agents[j]
        /\ agents'[Len(agents) + 1].pending = 0
        /\ \A j \in Ids' : j \in Ids \/ j = Len(agents) + 1
    BY <1>11, CalmFacts, EnrollShape, LenProperties DEF Ids
  <2>2. QED
    BY <2>1 DEF Calm, RowsInStep
<1>12. ASSUME NEW w \in Workers, UpdateHeartbeat(w) PROVE RowsInStep'
  <2>1. /\ Ids' = Ids
        /\ \A j \in Ids : /\ agents'[j].version = agents[j].version
                         /\ agents'[j].pending = agents[j].pending
                         /\ agents'[j].pendingVersion =
                               agents[j].pendingVersion
    BY <1>12, CalmFacts, HeartbeatShape
  <2>2. QED
    BY <2>1 DEF Calm, RowsInStep
<1>13. ASSUME NEW w \in Workers, ActivateSelect(w) PROVE RowsInStep'
  BY <1>13, <1>same DEF ActivateSelect
<1>14. ASSUME NEW w \in Workers, ActivateUpdate(w) PROVE RowsInStep'
  <2>1. worker[w].secret # 0 /\ worker[w].version # 0
    BY <1>14 DEF ActivateUpdate, Calm, Carried
  <2>2. /\ Ids' = Ids
        /\ \A j \in Ids : agents'[j] = agents[j] \/ agents'[j].pending = 0
    BY <1>14, <2>1, CalmFacts, ActivateShape
  <2>3. QED
    BY <2>2 DEF Calm, RowsInStep
<1>15. ASSUME NEW w \in Workers, RotateUpdate(w) PROVE RowsInStep'
  <2>1. worker[w].version = agents[worker[w].id].version + 1
    BY <1>15 DEF RotateUpdate, Calm
  <2>2. /\ Ids' = Ids
        /\ \A j \in Ids : \/ agents'[j] = agents[j]
                         \/ /\ j = worker[w].id
                            /\ agents'[j].version = agents[j].version
                            /\ agents'[j].pendingVersion = worker[w].version
    BY <1>15, CalmFacts, RotateShape
  <2>3. QED
    BY <2>1, <2>2 DEF Calm, RowsInStep
<1>16. ASSUME NEW i \in Ids, Revoke(i) PROVE RowsInStep'
  <2>1. /\ Ids' = Ids
        /\ \A j \in Ids : /\ agents'[j].version = agents[j].version
                         /\ agents'[j].pending = agents[j].pending
                         /\ agents'[j].pendingVersion =
                               agents[j].pendingVersion
    BY <1>16, CalmFacts, RevokeShape
  <2>2. QED
    BY <2>1 DEF Calm, RowsInStep
<1>17. ASSUME NEW i \in Ids, MarkOffline(i) PROVE RowsInStep'
  <2>1. /\ Ids' = Ids
        /\ \A j \in Ids : /\ agents'[j].version = agents[j].version
                         /\ agents'[j].pending = agents[j].pending
                         /\ agents'[j].pendingVersion =
                               agents[j].pendingVersion
    BY <1>17, CalmFacts, OfflineShape
  <2>2. QED
    BY <2>1 DEF Calm, RowsInStep
<1>18. ASSUME NEW w \in Workers, NEW i \in Ids, RotateSelect(w, i)
       PROVE  RowsInStep'
  BY <1>18, <1>same DEF RotateSelect
<1>19. ASSUME TokenEnds PROVE RowsInStep'
  BY <1>19, <1>same DEF TokenEnds
<1>20. ASSUME Reprovision PROVE RowsInStep'
  BY <1>20, <1>same DEF Reprovision
<1>21. ASSUME AgentTimesOut PROVE RowsInStep'
  <2>1. faults' = faults + 1
    BY <1>21 DEF AgentTimesOut, Fault
  <2>2. QED
    BY <2>1 DEF Calm
<1>22. ASSUME NEW w \in Workers, RequestDies(w) PROVE RowsInStep'
  <2>1. faults' = faults + 1
    BY <1>22 DEF RequestDies, Fault
  <2>2. QED
    BY <2>1 DEF Calm
<1>23. ASSUME WriteFails PROVE RowsInStep'
  <2>1. faults' = faults + 1
    BY <1>23 DEF WriteFails, Fault
  <2>2. QED
    BY <2>1 DEF Calm
<1>24. ASSUME Crash PROVE RowsInStep'
  <2>1. faults' = faults + 1
    BY <1>24 DEF Crash, Fault
  <2>2. QED
    BY <2>1 DEF Calm
<1>25. CASE UNCHANGED vars
  BY <1>25, <1>same DEF vars
<1> QED
  BY <1>1, <1>2, <1>3, <1>4, <1>5, <1>6, <1>7, <1>8, <1>9, <1>10, <1>11,
     <1>12, <1>13, <1>14, <1>15, <1>16, <1>17, <1>18, <1>19, <1>20, <1>21,
     <1>22, <1>23, <1>24, <1>25
  DEF Next, AgentStep, WorkerStep, AdminStep, FaultStep

\* ... and a heartbeat delivers what is pending.
LEMMA HandlersInStepStep == Calm /\ [Next]_vars => HandlersInStep'
<1> SUFFICES ASSUME Calm, [Next]_vars PROVE HandlersInStep'
  OBVIOUS
<1>same. CASE UNCHANGED <<agents, worker>>
  BY <1>same DEF Calm, HandlersInStep, Beating, Busy
<1>1. ASSUME Start PROVE HandlersInStep'
  BY <1>1, <1>same DEF Start
<1>2. ASSUME StartFails PROVE HandlersInStep'
  BY <1>2, <1>same DEF StartFails
<1>3. ASSUME EnrollRefused PROVE HandlersInStep'
  BY <1>3, <1>same DEF EnrollRefused
<1>4. ASSUME NEW w \in Workers, EnrollCheck(w) PROVE HandlersInStep'
  <2>1. agents' = agents
    BY <1>4 DEF EnrollCheck
  <2>2. QED
    BY <1>4, <2>1, CalmFacts, WorkerShape, OthersStay
    DEF Calm, HandlersInStep, Beating, Busy
<1>5. ASSUME NEW w \in Workers, HeartbeatAuth(w) PROVE HandlersInStep'
  <2>1. agents' = agents
    BY <1>5 DEF HeartbeatAuth
  <2>2. QED
    BY <1>5, <2>1, CalmFacts, WorkerShape, OthersStay
    DEF Calm, HandlersInStep, Beating, Busy
<1>6. ASSUME SaveEnrolled PROVE HandlersInStep'
  BY <1>6, <1>same DEF SaveEnrolled
<1>7. ASSUME Scrub PROVE HandlersInStep'
  BY <1>7, <1>same DEF Scrub
<1>8. ASSUME SaveRotated PROVE HandlersInStep'
  BY <1>8, <1>same DEF SaveRotated
<1>9. ASSUME HeartbeatDenied PROVE HandlersInStep'
  BY <1>9, <1>same DEF HeartbeatDenied, vars
<1>10. ASSUME Restart PROVE HandlersInStep'
  BY <1>10, <1>same DEF Restart
<1>11. ASSUME NEW w \in Workers, EnrollCommit(w) PROVE HandlersInStep'
  <2>1. \A j \in Ids : agents'[j].version = agents[j].version
    BY <1>11, CalmFacts, EnrollShape
  <2>2. \A v \in Workers : v # w => worker'[v] = worker[v]
    BY <1>11, CalmFacts, OthersStay
  <2>3. worker'[w].op = "idle"
    BY <1>11, CalmFacts, WorkerShape
  <2>4. \A v \in Workers : Busy(v, "activate") => worker[v].id \in Ids
    BY CalmFacts DEF Beating, Busy
  <2>5. QED
    BY <2>1, <2>2, <2>3, <2>4 DEF Calm, HandlersInStep, Beating, Busy
<1>12. ASSUME NEW w \in Workers, UpdateHeartbeat(w) PROVE HandlersInStep'
  <2>1. \A j \in Ids : agents'[j].version = agents[j].version
    BY <1>12, CalmFacts, HeartbeatShape
  <2>2. \A v \in Workers : v # w => worker'[v] = worker[v]
    BY <1>12, CalmFacts, OthersStay
  <2>3. /\ worker'[w].op = "deliver" /\ worker[w].op = "heartbeat"
        /\ worker'[w].awaited = worker[w].awaited
    BY <1>12, CalmFacts, WorkerShape DEF UpdateHeartbeat, Busy
  <2>4. \A v \in Workers : Busy(v, "activate") => worker[v].id \in Ids
    BY CalmFacts DEF Beating, Busy
  <2>5. QED
    BY <2>1, <2>2, <2>3, <2>4 DEF Calm, HandlersInStep, Beating, Busy
<1>13. ASSUME NEW w \in Workers, ActivateSelect(w) PROVE HandlersInStep'
  <2>1. Beating(w) /\ agents' = agents
    BY <1>13 DEF ActivateSelect, Beating, Busy
  <2>2. \A v \in Workers : v # w => worker'[v] = worker[v]
    BY <1>13, CalmFacts, OthersStay
  <2>3. worker[w].awaited /\ worker[w].id \in Ids
    BY <2>1, CalmFacts
  <2>4. \/ worker'[w].op = "idle"
        \/ /\ worker'[w].awaited = worker[w].awaited
           /\ worker'[w].id = worker[w].id
           /\ agents[worker[w].id].pending # 0
           /\ worker'[w].version = agents[worker[w].id].pendingVersion
    BY <1>13, CalmFacts, WorkerShape
  <2>5. QED
    BY <2>1, <2>2, <2>3, <2>4
    DEF Calm, HandlersInStep, RowsInStep, Beating, Busy
<1>14. ASSUME NEW w \in Workers, ActivateUpdate(w) PROVE HandlersInStep'
  <2>1. Beating(w)
    BY <1>14 DEF ActivateUpdate, Beating, Busy
  <2>2. \A v \in Workers : v # w => worker'[v] = worker[v] /\ ~Beating(v)
    BY <1>14, <2>1, CalmFacts, OthersStay
  <2>3. worker'[w].op = "idle"
    BY <1>14, CalmFacts, WorkerShape
  <2>4. QED
    BY <2>2, <2>3 DEF HandlersInStep, Beating, Busy
<1>15. ASSUME NEW w \in Workers, RotateUpdate(w) PROVE HandlersInStep'
  <2>1. \A j \in Ids : agents'[j].version = agents[j].version
    BY <1>15, CalmFacts, RotateShape
  <2>2. \A v \in Workers : v # w => worker'[v] = worker[v]
    BY <1>15, CalmFacts, OthersStay
  <2>3. worker'[w].op = "idle"
    BY <1>15, CalmFacts, WorkerShape
  <2>4. \A v \in Workers : Busy(v, "activate") => worker[v].id \in Ids
    BY CalmFacts DEF Beating, Busy
  <2>5. QED
    BY <2>1, <2>2, <2>3, <2>4 DEF Calm, HandlersInStep, Beating, Busy
<1>16. ASSUME NEW i \in Ids, Revoke(i) PROVE HandlersInStep'
  <2>1. worker' = worker
    BY <1>16 DEF Revoke
  <2>2. \A j \in Ids : agents'[j].version = agents[j].version
    BY <1>16, CalmFacts, RevokeShape
  <2>3. QED
    BY <2>1, <2>2, CalmFacts DEF Calm, HandlersInStep, Beating, Busy
<1>17. ASSUME NEW i \in Ids, MarkOffline(i) PROVE HandlersInStep'
  <2>1. worker' = worker
    BY <1>17 DEF MarkOffline
  <2>2. \A j \in Ids : agents'[j].version = agents[j].version
    BY <1>17, CalmFacts, OfflineShape
  <2>3. QED
    BY <2>1, <2>2, CalmFacts DEF Calm, HandlersInStep, Beating, Busy
<1>18. ASSUME NEW w \in Workers, NEW i \in Ids, RotateSelect(w, i)
       PROVE  HandlersInStep'
  <2>1. agents' = agents
    BY <1>18 DEF RotateSelect
  <2>2. QED
    BY <1>18, <2>1, CalmFacts, RotateSelectShape
    DEF Calm, HandlersInStep, Beating, Busy
<1>19. ASSUME TokenEnds PROVE HandlersInStep'
  BY <1>19, <1>same DEF TokenEnds
<1>20. ASSUME Reprovision PROVE HandlersInStep'
  BY <1>20, <1>same DEF Reprovision
<1>21. ASSUME AgentTimesOut PROVE HandlersInStep'
  <2>1. faults' = faults + 1
    BY <1>21 DEF AgentTimesOut, Fault
  <2>2. QED
    BY <2>1 DEF Calm
<1>22. ASSUME NEW w \in Workers, RequestDies(w) PROVE HandlersInStep'
  <2>1. faults' = faults + 1
    BY <1>22 DEF RequestDies, Fault
  <2>2. QED
    BY <2>1 DEF Calm
<1>23. ASSUME WriteFails PROVE HandlersInStep'
  <2>1. faults' = faults + 1
    BY <1>23 DEF WriteFails, Fault
  <2>2. QED
    BY <2>1 DEF Calm
<1>24. ASSUME Crash PROVE HandlersInStep'
  <2>1. faults' = faults + 1
    BY <1>24 DEF Crash, Fault
  <2>2. QED
    BY <2>1 DEF Calm
<1>25. CASE UNCHANGED vars
  BY <1>25, <1>same DEF vars
<1> QED
  BY <1>1, <1>2, <1>3, <1>4, <1>5, <1>6, <1>7, <1>8, <1>9, <1>10, <1>11,
     <1>12, <1>13, <1>14, <1>15, <1>16, <1>17, <1>18, <1>19, <1>20, <1>21,
     <1>22, <1>23, <1>24, <1>25
  DEF Next, AgentStep, WorkerStep, AdminStep, FaultStep

\* Nothing undoes a fault or a race.
LEMMA CalmBefore == Types /\ [Next]_vars => (Undisturbed' => Undisturbed)
<1> SUFFICES ASSUME Types, [Next]_vars PROVE Undisturbed' => Undisturbed
  OBVIOUS
<1>same. CASE UNCHANGED <<raced, faults>>
  BY <1>same DEF Undisturbed
<1>1. ASSUME Start PROVE Undisturbed' => Undisturbed
  BY <1>1, <1>same DEF Start, history
<1>2. ASSUME StartFails PROVE Undisturbed' => Undisturbed
  BY <1>2, <1>same DEF StartFails, history
<1>3. ASSUME EnrollRefused PROVE Undisturbed' => Undisturbed
  BY <1>3, <1>same DEF EnrollRefused, history
<1>4. ASSUME NEW w \in Workers, EnrollCheck(w)
      PROVE  Undisturbed' => Undisturbed
  BY <1>4, <1>same DEF EnrollCheck, history
<1>5. ASSUME NEW w \in Workers, HeartbeatAuth(w)
      PROVE  Undisturbed' => Undisturbed
  BY <1>5, <1>same DEF HeartbeatAuth, history
<1>6. ASSUME SaveEnrolled PROVE Undisturbed' => Undisturbed
  BY <1>6, <1>same DEF SaveEnrolled, history
<1>7. ASSUME Scrub PROVE Undisturbed' => Undisturbed
  BY <1>7, <1>same DEF Scrub, history
<1>8. ASSUME SaveRotated PROVE Undisturbed' => Undisturbed
  BY <1>8, <1>same DEF SaveRotated, history
<1>9. ASSUME HeartbeatDenied PROVE Undisturbed' => Undisturbed
  BY <1>9, <1>same DEF HeartbeatDenied, vars, history
<1>10. ASSUME Restart PROVE Undisturbed' => Undisturbed
  BY <1>10, <1>same DEF Restart, history
<1>11. ASSUME NEW w \in Workers, EnrollCommit(w)
       PROVE  Undisturbed' => Undisturbed
  BY <1>11, <1>same DEF EnrollCommit, history
<1>12. ASSUME NEW w \in Workers, UpdateHeartbeat(w)
       PROVE  Undisturbed' => Undisturbed
  BY <1>12, <1>same DEF UpdateHeartbeat, history
<1>13. ASSUME NEW w \in Workers, ActivateSelect(w)
       PROVE  Undisturbed' => Undisturbed
  BY <1>13, <1>same DEF ActivateSelect, history
<1>14. ASSUME NEW w \in Workers, ActivateUpdate(w)
       PROVE  Undisturbed' => Undisturbed
  BY <1>14, <1>same DEF ActivateUpdate, history
<1>15. ASSUME NEW w \in Workers, RotateUpdate(w)
       PROVE  Undisturbed' => Undisturbed
  BY <1>15 DEF RotateUpdate, Undisturbed
<1>16. ASSUME NEW i \in Ids, Revoke(i) PROVE Undisturbed' => Undisturbed
  BY <1>16, <1>same DEF Revoke, history
<1>17. ASSUME NEW i \in Ids, MarkOffline(i) PROVE Undisturbed' => Undisturbed
  BY <1>17, <1>same DEF MarkOffline, history
<1>18. ASSUME NEW w \in Workers, NEW i \in Ids, RotateSelect(w, i)
       PROVE  Undisturbed' => Undisturbed
  BY <1>18, <1>same DEF RotateSelect
<1>19. ASSUME TokenEnds PROVE Undisturbed' => Undisturbed
  BY <1>19, <1>same DEF TokenEnds, history
<1>20. ASSUME Reprovision PROVE Undisturbed' => Undisturbed
  BY <1>20, <1>same DEF Reprovision
<1>21. ASSUME AgentTimesOut PROVE Undisturbed' => Undisturbed
  <2>1. faults \in Nat /\ faults' = faults + 1
    BY <1>21 DEF AgentTimesOut, Fault, Types, HistoryOK
  <2>2. QED
    BY <2>1 DEF Undisturbed
<1>22. ASSUME NEW w \in Workers, RequestDies(w)
       PROVE  Undisturbed' => Undisturbed
  <2>1. faults \in Nat /\ faults' = faults + 1
    BY <1>22 DEF RequestDies, Fault, Types, HistoryOK
  <2>2. QED
    BY <2>1 DEF Undisturbed
<1>23. ASSUME WriteFails PROVE Undisturbed' => Undisturbed
  <2>1. faults \in Nat /\ faults' = faults + 1
    BY <1>23 DEF WriteFails, Fault, Types, HistoryOK
  <2>2. QED
    BY <2>1 DEF Undisturbed
<1>24. ASSUME Crash PROVE Undisturbed' => Undisturbed
  <2>1. faults \in Nat /\ faults' = faults + 1
    BY <1>24 DEF Crash, Fault, Types, HistoryOK
  <2>2. QED
    BY <2>1 DEF Undisturbed
<1>25. CASE UNCHANGED vars
  BY <1>25, <1>same DEF vars, history
<1> QED
  BY <1>1, <1>2, <1>3, <1>4, <1>5, <1>6, <1>7, <1>8, <1>9, <1>10, <1>11,
     <1>12, <1>13, <1>14, <1>15, <1>16, <1>17, <1>18, <1>19, <1>20, <1>21,
     <1>22, <1>23, <1>24, <1>25
  DEF Next, AgentStep, WorkerStep, AdminStep, FaultStep

\* While nothing goes wrong, the endpoint and the backend stay in step.
LEMMA InStepStep ==
    Types /\ Known /\ Carried /\ Awaiting /\ InStep /\ [Next]_vars => InStep'
<1> SUFFICES ASSUME Types, Known, Carried, Awaiting, InStep, [Next]_vars,
                    Undisturbed'
             PROVE  EndpointInStep' /\ RowsInStep' /\ HandlersInStep'
  BY DEF InStep
<1>1. Undisturbed
  BY CalmBefore
<1>2. Calm
  BY <1>1 DEF Calm, InStep, Undisturbed
<1>3. QED
  BY <1>2, EndpointInStepStep, RowsInStepStep, HandlersInStepStep

-----------------------------------------------------------------------------
\* The invariant, and what follows from it

\* No identity, no request and no fault at first.
LEMMA InitIInv == Init => IInv
<1> SUFFICES ASSUME Init PROVE IInv
  OBVIOUS
<1> USE FilesAssumption
<1>1. Len(agents) = 0 /\ Ids = {}
  BY DEF Init, Ids
<1>2. \A w \in Workers : worker[w] = IdleWorker
  BY DEF Init
<1>3. Types
  <2>1. RowsOK
    BY DEF Init, RowsOK
  <2>2. HandlersOK
    BY DEF Init, HandlersOK, Handler, IdleWorker
  <2>3. EndpointOK /\ HistoryOK
    BY DEF Init, EndpointOK, HistoryOK
  <2>4. QED
    BY <2>1, <2>2, <2>3 DEF Types
<1>4. Known
  BY <1>2
  DEF Init, Known, EndpointKnown, HandlersKnown, Beating, Busy, IdleWorker
<1>5. Carried
  BY <1>1, <1>2 DEF Carried, Busy, IdleWorker
<1>6. Awaiting
  BY <1>2 DEF Awaiting, IdleWorker
<1>7. Minted
  <2>1. Enrolls = {}
    BY <1>2 DEF Enrolls, Busy, IdleWorker
  <2>2. Cardinality(Enrolls) = 0
    BY <2>1, FS_EmptySet
  <2>3. ~HasIdentity /\ forgotten = 0
    BY DEF Init, HasIdentity, Loads
  <2>4. QED
    BY <1>1, <2>2, <2>3 DEF Minted
<1>8. Kept
  BY DEF Init, Kept
<1>9. InStep
  BY <1>1, <1>2
  DEF Init, InStep, EndpointInStep, RowsInStep, HandlersInStep, Loads,
      Beating, Busy, IdleWorker
<1>10. QED
  BY <1>3, <1>4, <1>5, <1>6, <1>7, <1>8, <1>9 DEF IInv

\* The invariant holds in every state the backend and the endpoint can reach.
THEOREM Inductive == Spec => []IInv
<1>1. Init => IInv
  BY InitIInv
<1>2. IInv /\ [Next]_vars => IInv'
  BY TypesStep, EndpointKnownStep, HandlersKnownStep, CarriedStep,
     AwaitingStep, MintedStep, KeptStep, InStepStep
  DEF IInv, Known
<1>3. QED
  BY <1>1, <1>2, PTL DEF Spec

\* The endpoint's credential stops working, without a revocation, only if a
\* fault cut a delivery short or a rotation raced with one: however heartbeats
\* and rotations interleave otherwise, rotate_agent_credential and
\* activate_pending_agent_credential keep the two sides in step.
THEOREM LockoutsAreExplained == Spec => []LockoutHasCause
<1>1. IInv => LockoutHasCause
  BY DEF IInv, Types, HistoryOK, InStep, Undisturbed, EndpointInStep,
      LockoutHasCause, LockedOut
<1>2. QED
  BY <1>1, Inductive, PTL

\* enroll_agent mints an identity beyond the first only for one that a fault
\* made the endpoint forget.
THEOREM DuplicatesAreExplained == Spec => []DuplicatesHaveCause
<1>1. IInv => DuplicatesHaveCause
  <2>1. Types => /\ Cardinality(Enrolls) \in Nat
                 /\ Len(agents) \in Nat /\ forgotten \in Nat
    BY EnrollsFinite
  <2>2. QED
    BY <2>1 DEF IInv, Minted, DuplicatesHaveCause
<1>2. QED
  BY <1>1, Inductive, PTL

\* A restart finds the identity the agent has, whatever write is interrupted.
THEOREM IdentitySurvivesRestart == Spec => []RestartKeepsIdentity
<1>1. IInv => RestartKeepsIdentity
  BY DEF IInv, Kept, RestartKeepsIdentity
<1>2. QED
  BY <1>1, Inductive, PTL

-----------------------------------------------------------------------------
\* Revocation

\* Each step leaves a thread with the identity it had, or none, but for the two
\* that check an identity and take it up.
LEMMA TakenUp ==
    ASSUME Types, Known, Next, NEW v \in Workers
    PROVE  \/ worker'[v].id \in {worker[v].id, 0}
           \/ worker'[v].id = mem.id /\ Authenticates(mem)
           \/ worker'[v].id \in Ids /\ ~agents[worker'[v].id].revoked
<1> DEFINE Same == worker'[v].id \in {worker[v].id, 0}
<1>0. /\ worker \in [Workers -> Handler]
      /\ \A w \in Workers : worker[w] \in Handler
      /\ IdleWorker \in Handler /\ IdleWorker.id = 0
  BY HandlerTyped DEF Types, HandlersOK, IdleWorker, Handler
<1>1. ASSUME NEW w \in Workers, NEW h \in Handler,
             worker' = [worker EXCEPT ![w] = h], h.id \in {worker[w].id, 0}
      PROVE  Same
  BY <1>0, <1>1
<1>2. ASSUME UNCHANGED worker PROVE Same
  BY <1>2
<1>3. ASSUME worker' = Abandon PROVE Same
  BY <1>3, AbandonShape
<1>4. ASSUME NEW w \in Workers, worker' = [worker EXCEPT ![w] = IdleWorker]
      PROVE  Same
  BY <1>0, <1>1, <1>4
<1>5. ASSUME NEW w \in Workers, HeartbeatAuth(w)
      PROVE  Same \/ (worker'[v].id = mem.id /\ Authenticates(mem))
  <2>1. v # w => Same
    BY <1>5, OthersStay
  <2>2. v = w => worker'[v].id = mem.id /\ Authenticates(mem)
    BY <1>5, WorkerShape DEF HeartbeatAuth
  <2>3. QED
    BY <2>1, <2>2
<1>6. ASSUME NEW w \in Workers, EnrollCheck(w)
      PROVE  Same
  <2>1. v # w => Same
    BY <1>6, OthersStay
  <2>2. v = w => worker'[v].id = 0
    BY <1>0, <1>6 DEF EnrollCheck, IdleWorker, Handler
  <2>3. QED
    BY <2>1, <2>2
<1>7. ASSUME NEW w \in Workers, WorkerStep(w)
      PROVE  Same
  <2>1. EnrollCommit(w) \/ RotateUpdate(w) \/ ActivateUpdate(w) => Same
    BY <1>4 DEF EnrollCommit, RotateUpdate, ActivateUpdate
  <2>2. ASSUME UpdateHeartbeat(w) PROVE Same
    BY <2>2, WorkerShape, OthersStay
  <2>3. ASSUME ActivateSelect(w) PROVE Same
    <3>1. v # w => Same
      BY <2>3, OthersStay
    <3>2. CASE agents[worker[w].id].pending = 0
      BY <1>4, <2>3, <3>2 DEF ActivateSelect
    <3>3. CASE agents[worker[w].id].pending # 0
      <4> DEFINE a == agents[worker[w].id]
                 k == ActivateRequest(worker[w], a.pending, a.pendingVersion)
      <4>1. worker' = [worker EXCEPT ![w] = k]
        BY <2>3, <3>3 DEF ActivateSelect, ActivateRequest
      <4>2. k.id = worker[w].id
        BY <1>0 DEF ActivateRequest, Handler
      <4> HIDE DEF k
      <4>3. QED
        BY <1>0, <3>1, <4>1, <4>2
    <3>4. QED
      BY <3>2, <3>3
  <2>4. QED
    BY <1>7, <2>1, <2>2, <2>3 DEF WorkerStep
<1>8. ASSUME NEW w \in Workers, NEW i \in Ids, RotateSelect(w, i)
      PROVE  Same \/ (worker'[v].id \in Ids /\ ~agents[worker'[v].id].revoked)
  <2>1. ~agents[i].revoked
    BY <1>8 DEF RotateSelect
  <2>2. v # w => Same
    BY <1>8, RotateSelectShape
  <2>3. v = w => worker'[v].id = i
    BY <1>8, RotateSelectShape
  <2>4. QED
    BY <2>1, <2>2, <2>3
<1>9. CASE AgentStep
  <2>1. UNCHANGED worker \/ \E w \in Workers : EnrollCheck(w) \/ HeartbeatAuth(w)
    BY <1>9
    DEF AgentStep, Start, StartFails, EnrollRefused, SaveEnrolled, Scrub,
        SaveRotated, HeartbeatDenied, Restart, vars
  <2>2. QED
    BY <1>2, <1>5, <1>6, <2>1
<1>10. CASE AdminStep
  <2>1. UNCHANGED worker \/ \E i \in Ids, w \in Workers : RotateSelect(w, i)
    BY <1>10 DEF AdminStep, Revoke, MarkOffline, TokenEnds, Reprovision
  <2>2. QED
    BY <1>2, <1>8, <2>1
<1>11. CASE FaultStep
  <2>1. \/ UNCHANGED worker
        \/ worker' = Abandon
        \/ \E w \in Workers : worker' = [worker EXCEPT ![w] = IdleWorker]
    BY <1>11 DEF FaultStep, AgentTimesOut, RequestDies, WriteFails, Crash
  <2>2. QED
    BY <1>2, <1>3, <1>4, <2>1
<1>12. QED
  BY <1>7, <1>9, <1>10, <1>11 DEF Next

\* An overwritten row keeps the mark if what is written does.
LEMMA MarkKept ==
    ASSUME Types, NEW k \in Ids, NEW i \in Ids, NEW a \in Agent,
           agents' = [agents EXCEPT ![k] = a]
    PROVE  agents'[i] = IF i = k THEN a ELSE agents[i]
BY RowTyped, RowChange DEF Types, RowsOK, Ids

\* No step takes the mark of a revoked identity away, and only a thread that
\* serves it writes more into its row than "offline".
LEMMA RevokedRow ==
    ASSUME Types, Known, Carried, Next, NEW i \in Ids, agents[i].revoked
    PROVE  /\ agents'[i].revoked
           /\ Serving(i) = {} =>
                 agents'[i] \in {agents[i], [agents[i] EXCEPT !.status = "offline"]}
<1> DEFINE Kept1 == agents'[i].revoked
           Still == agents'[i] \in {agents[i], [agents[i] EXCEPT !.status = "offline"]}
<1>0. /\ \A k \in Ids : agents[k] \in Agent
      /\ \A w \in Workers : Beating(w) \/ Busy(w, "rotate") => worker[w].id \in Ids
  BY RowTyped DEF Known, HandlersKnown
<1>1. ASSUME UNCHANGED agents PROVE Kept1 /\ Still
  BY <1>1
<1>2. ASSUME NEW w \in Workers, NEW k \in Ids, NEW a \in Agent,
             agents' = [agents EXCEPT ![k] = a],
             k = worker[w].id, a.revoked = agents[k].revoked
      PROVE  Kept1 /\ (Serving(i) = {} => Still)
  <2>1. agents'[i] = IF i = k THEN a ELSE agents[i]
    <3>1. agents \in Seq(Agent) /\ i \in 1..Len(agents) /\ k \in 1..Len(agents)
      BY DEF Types, RowsOK, Ids
    <3>2. QED
      BY <1>2, <3>1, RowChange
  <2>2. i = k => Serving(i) # {}
    BY <1>2 DEF Serving
  <2>3. QED
    BY <1>2, <2>1, <2>2
<1>3. ASSUME NEW w \in Workers, WorkerStep(w)
      PROVE  Kept1 /\ (Serving(i) = {} => Still)
  <2> DEFINE k == worker[w].id
  <2>1. ASSUME EnrollCommit(w) PROVE Kept1 /\ Still
    BY <2>1, EnrollShape
  <2>2. ASSUME UpdateHeartbeat(w) PROVE Kept1 /\ (Serving(i) = {} => Still)
    <3> DEFINE a == [agents[k] EXCEPT !.status = "online"]
    <3>1. k \in Ids /\ agents' = [agents EXCEPT ![k] = a]
      BY <1>0, <2>2 DEF UpdateHeartbeat, Beating, Busy
    <3>2. a \in Agent /\ a.revoked = agents[k].revoked
      BY <1>0, <3>1 DEF Agent
    <3> HIDE DEF a
    <3>3. QED
      BY <1>2, <3>1, <3>2
  <2>3. ASSUME ActivateUpdate(w) PROVE Kept1 /\ (Serving(i) = {} => Still)
    <3> DEFINE a == [agents[k] EXCEPT
                        !.secret = worker[w].secret, !.version = worker[w].version,
                        !.pending = 0, !.pendingVersion = 0]
    <3>1. k \in Ids /\ agents' = [agents EXCEPT ![k] = a]
      BY <1>0, <2>3 DEF ActivateUpdate, Activate, Beating, Busy
    <3>2. /\ worker[w].secret \in Secret
          /\ worker[w].version \in Nat \ {0}
      BY <2>3, HandlerTyped DEF Carried, ActivateUpdate, Secret
    <3>3. agents[k] \in Agent
      BY <1>0, <3>1
    <3>4. a \in Agent
      BY <3>2, <3>3 DEF Agent
    <3>5. a.revoked = agents[k].revoked
      BY <3>3 DEF Agent
    <3> HIDE DEF a
    <3>6. QED
      BY <1>2, <3>1, <3>4, <3>5
  <2>4. ASSUME RotateUpdate(w) PROVE Kept1 /\ (Serving(i) = {} => Still)
    <3> DEFINE a == [agents[k] EXCEPT !.pending = worker[w].secret,
                                      !.pendingVersion = worker[w].version]
    <3>1. k \in Ids /\ agents' = [agents EXCEPT ![k] = a]
      BY <1>0, <2>4 DEF RotateUpdate
    <3>2. /\ agents[k] \in Agent
          /\ worker[w].secret \in Nat /\ worker[w].version \in Nat
      BY <1>0, <3>1, HandlerTyped
    <3>3. a \in Agent
      BY <3>2 DEF Agent, Secret
    <3>4. a.revoked = agents[k].revoked
      BY <3>2 DEF Agent
    <3> HIDE DEF a
    <3>5. QED
      BY <1>2, <3>1, <3>3, <3>4
  <2>5. QED
    BY <1>1, <1>3, <2>1, <2>2, <2>3, <2>4 DEF WorkerStep, ActivateSelect
<1>4. ASSUME NEW k \in Ids, Revoke(k) PROVE Kept1 /\ Still
  <2> DEFINE a == [agents[k] EXCEPT !.revoked = TRUE, !.status = "revoked"]
  <2>1. agents' = [agents EXCEPT ![k] = a] /\ k # i
    BY <1>4 DEF Revoke
  <2>2. agents[k] \in Agent
    BY <1>0
  <2>3. a \in Agent
    BY <2>2 DEF Agent
  <2> HIDE DEF a
  <2>4. QED
    BY <2>1, <2>3, MarkKept
<1>5. ASSUME NEW k \in Ids, MarkOffline(k) PROVE Kept1 /\ Still
  <2> DEFINE a == [agents[k] EXCEPT !.status = "offline"]
  <2>1. agents' = [agents EXCEPT ![k] = a]
    BY <1>5 DEF MarkOffline
  <2>2. agents[k] \in Agent
    BY <1>0
  <2>3. a \in Agent
    BY <2>2 DEF Agent
  <2>4. a.revoked = agents[k].revoked
    BY <2>2 DEF Agent
  <2>5. agents'[i] = IF i = k THEN a ELSE agents[i]
    BY <2>1, <2>3, MarkKept
  <2>6. QED
    BY <2>4, <2>5
<1>6. CASE AgentStep
  BY <1>1, <1>6
  DEF AgentStep, Start, StartFails, EnrollRefused, SaveEnrolled, Scrub,
      SaveRotated, HeartbeatDenied, Restart, EnrollCheck, HeartbeatAuth, vars
<1>7. CASE AdminStep
  BY <1>1, <1>4, <1>5, <1>7 DEF AdminStep, TokenEnds, Reprovision, RotateSelect
<1>8. CASE FaultStep
  BY <1>1, <1>8 DEF FaultStep, AgentTimesOut, RequestDies, WriteFails, Crash
<1>9. QED
  BY <1>3, <1>6, <1>7, <1>8 DEF Next

\* POST /agents/{id}/revoke is final: whatever heartbeats, rotations and scans for
\* offline agents write into the row meanwhile, the mark stays, no request of the
\* identity is let in any more, and once those let in before are answered its
\* credential and what is pending stay as they are.
THEOREM RevocationHolds == Spec => RevocationIsFinal
<1> DEFINE Final(i) ==
        /\ agents'[i].revoked
        /\ Serving(i)' \subseteq Serving(i)
        /\ Serving(i) = {} =>
              agents'[i] \in {agents[i], [agents[i] EXCEPT !.status = "offline"]}
<1>1. ASSUME IInv, [Next]_vars
      PROVE  [\A i \in Ids : agents[i].revoked => Final(i)]_vars
  <2>0. Types /\ Known /\ Carried
    BY <1>1 DEF IInv
  <2>1. CASE UNCHANGED vars
    BY <2>1
  <2>2. CASE Next
    <3>1. ASSUME NEW i \in Ids, agents[i].revoked
          PROVE  Final(i)
      <4>1. \A v \in Workers : worker'[v].id = i => worker[v].id = i
        <5>1. i # 0 /\ (Authenticates(mem) => mem.id # i)
          BY <3>1 DEF Ids, Authenticates
        <5>2. QED
          BY <2>0, <2>2, <3>1, <5>1, TakenUp
      <4>2. Serving(i)' \subseteq Serving(i)
        BY <4>1 DEF Serving
      <4>3. QED
        BY <2>0, <2>2, <3>1, <4>2, RevokedRow
    <3>2. QED
      BY <3>1
  <2>3. QED
    BY <1>1, <2>1, <2>2
<1>2. QED
  BY <1>1, Inductive, PTL DEF Spec, RevocationIsFinal

=============================================================================
