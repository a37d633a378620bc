----------------------------- MODULE Credential ------------------------------
(***************************************************************************)
(* The life of an endpoint's credential: enrollment with a bootstrap token,*)
(* rotation delivered by heartbeat, revocation, and what the endpoint has  *)
(* on disk (open_edr_mdr_agent/api/store.py and app.py, agent/cmd/         *)
(* open-edr-agent/main.go, agent/internal/state/state.go).                 *)
(*                                                                         *)
(* There is one endpoint.  It may enroll more than once, and the backend   *)
(* keeps every identity it ever gave it.  Handlers run on a pool of        *)
(* threads; a SELECT and the UPDATE that follows it are two steps.  The    *)
(* state file and the config file are overwritten in place.                *)
(*                                                                         *)
(* Definitions named X_Y are mutants: X as a plausible slip would have it. *)
(***************************************************************************)
EXTENDS Integers, Sequences, FiniteSets

CONSTANTS
    Workers,         \* threads of the backend
    MaxUses,         \* max_uses of the enrollment token
    MaxRotations,    \* bound: rotations an administrator schedules
    MaxReprovisions, \* bound: times the endpoint is set up afresh
    MaxFaults,       \* bound: crashes, failed writes, abandoned or dead requests
    NoState, Torn    \* a missing file, and half a file

ASSUME CredentialAssumption ==
    /\ IsFiniteSet(Workers) /\ MaxUses \in Nat /\ MaxRotations \in Nat
    /\ MaxReprovisions \in Nat /\ MaxFaults \in Nat

VARIABLES
    bootstrap,   \* the enrollment token's row: uses, and whether it is valid
    agents,      \* the agents table; an agent_id is an index into it
    nextSecret,  \* secrets.token_urlsafe: never the same twice
    worker,      \* what each thread is in the middle of
    pc,          \* where the agent process is
    mem,         \* its state in memory
    disk,        \* its state file
    config,      \* enrollment_token in its config file
    raced,       \* history: a rotation was computed from an old version
    forgotten,   \* history: faults that cost the endpoint an identity
    rotations, reprovisions, faults   \* history: how many

history == <<raced, forgotten, rotations, reprovisions, faults>>
vars == <<bootstrap, agents, nextSecret, worker, pc, mem, disk, config, history>>

-----------------------------------------------------------------------------
Ids == 1..Len(agents)
Secret == Nat \ {0}     \* 0 is "no secret"
State == [id : Nat \ {0}, secret : Secret, version : Nat \ {0}]
Agent == [secret : Secret, version : Nat \ {0},
          pending : Secret \cup {0}, pendingVersion : Nat,
          revoked : BOOLEAN, status : {"online", "offline", "revoked"}]

\* The state file is missing, or half of one: not a state.
ASSUME FilesAssumption == NoState # Torn /\ {NoState, Torn} \cap State = {}

IdleWorker == [op |-> "idle", id |-> 0, secret |-> 0, version |-> 0,
               awaited |-> FALSE]
Idle(w) == worker[w] = IdleWorker
Busy(w, op) == worker[w].op = op

Init ==
    /\ bootstrap = [uses |-> 0, valid |-> TRUE]
    /\ agents = <<>>
    /\ nextSecret = 1
    /\ worker = [w \in Workers |-> IdleWorker]
    /\ pc = "start"
    /\ mem = NoState /\ disk = NoState /\ config = "token"
    /\ raced = FALSE
    /\ forgotten = 0 /\ rotations = 0 /\ reprovisions = 0 /\ faults = 0

\* A fault before the state file is written, or one that tears it, costs the
\* endpoint its identity.
Fault ==
    /\ faults < MaxFaults /\ faults' = faults + 1
    /\ forgotten' = IF \/ pc \in {"enrollWait", "saveEnrolled"}
                       \/ disk' = Torn /\ disk # Torn
                    THEN forgotten + 1 ELSE forgotten

-----------------------------------------------------------------------------
(* The agent starts and enrolls *)

Loads == disk \notin {NoState, Torn}

\* runAgent: a state file that loads is used as it is
Start ==
    /\ pc = "start" /\ config # Torn
    /\ Loads
    /\ mem' = disk
    /\ pc' = "cycle"
    /\ UNCHANGED <<bootstrap, agents, nextSecret, worker, disk, config, history>>

\* The config file does not parse, or there is neither a state nor a token.
StartFails ==
    /\ pc = "start"
    /\ config = Torn \/ (~Loads /\ config = "scrubbed")
    /\ pc' = "stopped"
    /\ UNCHANGED <<bootstrap, agents, nextSecret, worker, mem, disk, config,
                   history>>

\* enroll_agent checks the token ...
TokenAccepted == bootstrap.valid /\ bootstrap.uses < MaxUses

Enrolling_EvenWithState == pc = "start" /\ config = "token"

Enrolling == pc = "start" /\ config = "token" /\ ~Loads

EnrollCheck(w) ==
    /\ Enrolling
    /\ Idle(w)
    /\ TokenAccepted
    /\ worker' = [worker EXCEPT ![w] = [IdleWorker EXCEPT !.op = "enroll",
                                                          !.awaited = TRUE]]
    /\ pc' = "enrollWait"
    /\ UNCHANGED <<bootstrap, agents, nextSecret, mem, disk, config, history>>

EnrollRefused ==
    /\ Enrolling
    /\ ~TokenAccepted
    /\ pc' = "stopped"
    /\ UNCHANGED <<bootstrap, agents, nextSecret, worker, mem, disk, config,
                   history>>

\* ... and then counts the use and inserts the agent.
EnrollCommit(w) ==
    /\ Busy(w, "enroll")
    /\ bootstrap' = [bootstrap EXCEPT !.uses = @ + 1]
    /\ agents' = Append(agents,
           [secret |-> nextSecret, version |-> 1, pending |-> 0,
            pendingVersion |-> 0, revoked |-> FALSE, status |-> "online"])
    /\ nextSecret' = nextSecret + 1
    /\ worker' = [worker EXCEPT ![w] = IdleWorker]
    /\ IF worker[w].awaited
       THEN /\ mem' = [id |-> Len(agents) + 1, secret |-> nextSecret, version |-> 1]
            /\ pc' = "saveEnrolled"
       ELSE UNCHANGED <<mem, pc>>
    /\ UNCHANGED <<disk, config, history>>

\* state.Save, and then the bootstrap token is scrubbed from the config file.
SaveEnrolled_InMemoryOnly ==
    /\ pc = "saveEnrolled"
    /\ pc' = "scrub"
    /\ UNCHANGED <<bootstrap, agents, nextSecret, worker, mem, disk, config,
                   history>>

SaveEnrolled ==
    /\ pc = "saveEnrolled"
    /\ disk' = mem
    /\ pc' = "scrub"
    /\ UNCHANGED <<bootstrap, agents, nextSecret, worker, mem, config, history>>

Scrub ==
    /\ pc = "scrub"
    /\ config' = "scrubbed"
    /\ pc' = "cycle"
    /\ UNCHANGED <<bootstrap, agents, nextSecret, worker, mem, disk, history>>

-----------------------------------------------------------------------------
(* Heartbeats *)

\* authenticate_agent
Authenticates(s) ==
    /\ agents[s.id].secret = s.secret
    /\ ~agents[s.id].revoked
    /\ agents[s.id].status # "revoked"

HeartbeatAuth(w) ==
    /\ pc = "cycle"
    /\ Idle(w)
    /\ Authenticates(mem)
    /\ worker' = [worker EXCEPT ![w] = [IdleWorker EXCEPT
                      !.op = "heartbeat", !.id = mem.id, !.awaited = TRUE]]
    /\ pc' = "heartbeatWait"
    /\ UNCHANGED <<bootstrap, agents, nextSecret, mem, disk, config, history>>

\* 401: the cycle goes on and tries again in the next round.
HeartbeatDenied ==
    /\ pc = "cycle"
    /\ ~Authenticates(mem)
    /\ UNCHANGED vars

\* update_heartbeat, for whatever status the agent has by now
UpdateHeartbeat(w) ==
    /\ Busy(w, "heartbeat")
    /\ agents' = [agents EXCEPT ![worker[w].id].status = "online"]
    /\ worker' = [worker EXCEPT ![w].op = "deliver"]
    /\ UNCHANGED <<bootstrap, nextSecret, pc, mem, disk, config, history>>

\* activate_pending_agent_credential reads the pending credential ...
ActivateSelect(w) ==
    LET a == agents[worker[w].id] IN
    /\ Busy(w, "deliver")
    /\ IF a.pending = 0
       THEN /\ worker' = [worker EXCEPT ![w] = IdleWorker]
            /\ pc' = IF worker[w].awaited THEN "cycle" ELSE pc
       ELSE /\ worker' = [worker EXCEPT ![w].op = "activate",
                                        ![w].secret = a.pending,
                                        ![w].version = a.pendingVersion]
            /\ UNCHANGED pc
    /\ UNCHANGED <<bootstrap, agents, nextSecret, mem, disk, config, history>>

\* The agent takes a credential update if its version is newer than its own.
Adopts_OffByOne(version) == version > mem.version + 1

Adopts(version) == version > mem.version

Activate_KeepsPending(w, a) ==
    [a EXCEPT !.secret = worker[w].secret, !.version = worker[w].version]

Activate_ClearsRevocation(w, a) ==
    [a EXCEPT !.secret = worker[w].secret, !.version = worker[w].version,
              !.pending = 0, !.pendingVersion = 0, !.revoked = FALSE]

Activate(w, a) ==
    [a EXCEPT !.secret = worker[w].secret, !.version = worker[w].version,
              !.pending = 0, !.pendingVersion = 0]

\* ... and makes it the credential; the heartbeat's response carries it.
ActivateUpdate(w) ==
    /\ Busy(w, "activate")
    /\ agents' = [agents EXCEPT ![worker[w].id] = Activate(w, @)]
    /\ worker' = [worker EXCEPT ![w] = IdleWorker]
    /\ IF worker[w].awaited /\ Adopts(worker[w].version)
       THEN /\ mem' = [mem EXCEPT !.secret = worker[w].secret,
                                  !.version = worker[w].version]
            /\ pc' = "saveRotated"
       ELSE /\ pc' = IF worker[w].awaited THEN "cycle" ELSE pc
            /\ UNCHANGED mem
    /\ UNCHANGED <<bootstrap, nextSecret, disk, config, history>>

SaveRotated ==
    /\ pc = "saveRotated"
    /\ disk' = mem
    /\ pc' = "cycle"
    /\ UNCHANGED <<bootstrap, agents, nextSecret, worker, mem, config, history>>

-----------------------------------------------------------------------------
(* The administrator and the operator *)

\* rotate_agent_credential reads the agent ...
RotateSelect(w, i) ==
    /\ Idle(w)
    /\ rotations < MaxRotations
    /\ rotations' = rotations + 1
    /\ ~agents[i].revoked /\ agents[i].status # "revoked"
    /\ worker' = [worker EXCEPT ![w] = [IdleWorker EXCEPT !.op = "rotate", !.id = i,
                      !.secret = nextSecret, !.version = agents[i].version + 1]]
    /\ nextSecret' = nextSecret + 1
    /\ UNCHANGED <<bootstrap, agents, pc, mem, disk, config, raced,
                   forgotten, reprovisions, faults>>

\* ... and stores the next version, computed from what it read.
RotateUpdate(w) ==
    LET i == worker[w].id IN
    /\ Busy(w, "rotate")
    /\ agents' = [agents EXCEPT ![i].pending = worker[w].secret,
                                ![i].pendingVersion = worker[w].version]
    /\ raced' = (raced \/ worker[w].version # agents[i].version + 1)
    /\ worker' = [worker EXCEPT ![w] = IdleWorker]
    /\ UNCHANGED <<bootstrap, nextSecret, pc, mem, disk, config, forgotten,
                   rotations, reprovisions, faults>>

Revoke(i) ==
    /\ ~agents[i].revoked
    /\ agents' = [agents EXCEPT ![i].revoked = TRUE, ![i].status = "revoked"]
    /\ UNCHANGED <<bootstrap, nextSecret, worker, pc, mem, disk, config, history>>

\* mark_agents_offline: every agent not seen for a while, revoked or not
MarkOffline(i) ==
    /\ agents[i].status # "offline"
    /\ agents' = [agents EXCEPT ![i].status = "offline"]
    /\ UNCHANGED <<bootstrap, nextSecret, worker, pc, mem, disk, config, history>>

\* The enrollment token is revoked or expires.
TokenEnds ==
    /\ bootstrap.valid
    /\ bootstrap' = [bootstrap EXCEPT !.valid = FALSE]
    /\ UNCHANGED <<agents, nextSecret, worker, pc, mem, disk, config, history>>

\* The service control manager starts the stopped agent again.
Restart ==
    /\ pc = "stopped"
    /\ pc' = "start"
    /\ mem' = NoState
    /\ UNCHANGED <<bootstrap, agents, nextSecret, worker, disk, config, history>>

\* docs/DEPLOYMENT_V1.md:92: the operator puts the token into the config again
\* and has the endpoint enroll without its lost or corrupt state.
Reprovision ==
    /\ pc = "stopped" /\ ~Loads
    /\ reprovisions < MaxReprovisions
    /\ reprovisions' = reprovisions + 1
    /\ config' = "token"
    /\ disk' = NoState
    /\ UNCHANGED <<bootstrap, agents, nextSecret, worker, pc, mem, raced,
                   forgotten, rotations, faults>>

-----------------------------------------------------------------------------
(* Faults *)

Abandon == [w \in Workers |-> [worker[w] EXCEPT !.awaited = FALSE]]

\* A failed enrollment ends the process, a failed heartbeat does not.
CallFails == pc' = IF pc = "enrollWait" THEN "stopped" ELSE "cycle"

\* The client gives up: the request runs on and its response reaches nobody.
AgentTimesOut ==
    /\ \E w \in Workers : worker[w].awaited
    /\ worker' = Abandon
    /\ CallFails
    /\ UNCHANGED <<bootstrap, agents, nextSecret, mem, disk, config, raced,
                   rotations, reprovisions>>
    /\ Fault

\* A request dies between its steps.
RequestDies(w) ==
    /\ ~Idle(w)
    /\ worker' = [worker EXCEPT ![w] = IdleWorker]
    /\ IF worker[w].awaited THEN CallFails ELSE UNCHANGED pc
    /\ UNCHANGED <<bootstrap, agents, nextSecret, mem, disk, config, raced,
                   rotations, reprovisions>>
    /\ Fault

\* What an interrupted os.WriteFile leaves behind.
Interrupted(file) == {file, Torn}
DiskAfterInterruption ==
    IF pc \in {"saveEnrolled", "saveRotated"} THEN Interrupted(disk) ELSE {disk}
ConfigAfterInterruption == IF pc = "scrub" THEN Interrupted(config) ELSE {config}

\* A write returns an error: enrollment fails, a heartbeat's cycle goes on.
WriteFails ==
    /\ pc \in {"saveEnrolled", "saveRotated", "scrub"}
    /\ disk' \in DiskAfterInterruption
    /\ config' \in ConfigAfterInterruption
    /\ pc' = IF pc = "saveRotated" THEN "cycle" ELSE "stopped"
    /\ Fault
    /\ UNCHANGED <<bootstrap, agents, nextSecret, worker, mem, raced, rotations,
                   reprovisions>>

\* The agent process dies and is started again.
Crash ==
    /\ pc \notin {"start", "stopped"}
    /\ disk' \in DiskAfterInterruption
    /\ config' \in ConfigAfterInterruption
    /\ pc' = "start"
    /\ mem' = NoState
    /\ worker' = Abandon
    /\ Fault
    /\ UNCHANGED <<bootstrap, agents, nextSecret, raced, rotations, reprovisions>>

-----------------------------------------------------------------------------
AgentStep ==
    \/ Start \/ StartFails \/ EnrollRefused
    \/ \E w \in Workers : EnrollCheck(w) \/ HeartbeatAuth(w)
    \/ SaveEnrolled \/ Scrub \/ SaveRotated
    \/ HeartbeatDenied
    \/ Restart

WorkerStep(w) ==
    \/ EnrollCommit(w)
    \/ UpdateHeartbeat(w) \/ ActivateSelect(w) \/ ActivateUpdate(w)
    \/ RotateUpdate(w)

AdminStep ==
    \/ \E i \in Ids : Revoke(i) \/ MarkOffline(i)
                      \/ \E w \in Workers : RotateSelect(w, i)
    \/ TokenEnds
    \/ Reprovision

FaultStep ==
    \/ AgentTimesOut
    \/ \E w \in Workers : RequestDies(w)
    \/ WriteFails
    \/ Crash

Next ==
    \/ AgentStep
    \/ \E w \in Workers : WorkerStep(w)
    \/ AdminStep
    \/ FaultStep

Spec == Init /\ [][Next]_vars

\* The threads run on, the agent's loop goes round and, when it is time for a
\* heartbeat, some thread is free again and again.
FairSpec ==
    /\ Spec
    /\ \A w \in Workers : WF_vars(WorkerStep(w))
    /\ WF_vars(AgentStep)
    /\ SF_vars(\E w \in Workers : HeartbeatAuth(w))

-----------------------------------------------------------------------------
\* The threads with a request or a rotation of an identity in hand.
Serving(i) == {w \in Workers : worker[w].id = i}

\* docs/DEPLOYMENT_V1.md:91: a revocation is final, although a heartbeat let in
\* before it still writes "online" over it, and the search for agents offline
\* writes over it at any time.  No handler takes the mark away, nothing more is
\* let in for the identity, and when the last request let in before is answered
\* its row no longer changes but to "offline".
RevocationIsFinal ==
    [][\A i \in Ids : agents[i].revoked =>
          /\ agents'[i].revoked
          /\ Serving(i)' \subseteq Serving(i)
          /\ Serving(i) = {} =>
                agents'[i] \in {agents[i], [agents[i] EXCEPT !.status = "offline"]}
      ]_vars

\* The endpoint's credential stops working, without a revocation, only if a
\* fault cut a delivery short or a rotation raced with one.
LockedOut ==
    /\ pc = "cycle"
    /\ ~agents[mem.id].revoked
    /\ agents[mem.id].secret # mem.secret
LockoutHasCause == LockedOut => faults > 0 \/ raced

\* docs/WINDOWS_SIGNED_RELEASE_PATH.md:61: an identity beyond the first is
\* minted only for one that a fault made the endpoint forget.
DuplicatesHaveCause == Len(agents) <= 1 + forgotten

\* A restart finds the identity the agent has: the bootstrap token is not given up
\* before a credential reached the disk, and while no write has failed the disk
\* has what the agent uses.
RestartKeepsIdentity ==
    /\ config = "scrubbed" => disk # NoState
    /\ pc = "cycle" /\ faults = 0 => disk = mem

\* A scheduled rotation does not stay pending while the endpoint can connect.
Pending(i) == i \in Ids /\ agents[i].pending # 0
Connects(i) == mem # NoState /\ mem.id = i /\ Authenticates(mem)
RotationIsPickedUp ==
    \A i \in 1..(1 + MaxFaults + MaxReprovisions) :
        Pending(i) ~> ~Pending(i) \/ ~Connects(i)

\* docs/DEPLOYMENT_V1.md:90: "the agent receives the new credential on its next
\* successful heartbeat, persists it to local state, and uses it".
Uses(i) == disk = mem /\ mem.id = i /\ Authenticates(mem)
RotationReachesAgent ==
    \A i \in 1..(1 + MaxFaults + MaxReprovisions) :
        Pending(i) ~> \/ i \in Ids /\ agents[i].revoked
                      \/ i \in Ids /\ ~Pending(i) /\ Uses(i)

\* docs/SPEC.md:613: enrollment tokens are "optionally use-count limited".
UseLimitHolds == bootstrap.uses <= MaxUses

=============================================================================
