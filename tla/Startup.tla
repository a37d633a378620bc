------------------------------ MODULE Startup --------------------------------
(***************************************************************************)
(* What a server starts with, and the enrollment tokens it makes           *)
(* (open_edr_mdr_agent/api/app.py: create_app, _runtime_config,            *)
(* _store_for_runtime, _telemetry_store_for_runtime and the downloads;     *)
(* store.py: create_enrollment_token, revoke_enrollment_token).            *)
(*                                                                         *)
(* The demo profile is treated as dev is.  What becomes of a token in an   *)
(* agent's hands is in Credential.                                         *)
(*                                                                         *)
(* Definitions named X_Y are mutants: X as a plausible slip would have it. *)
(***************************************************************************)
EXTENDS Naturals, FiniteSets

CONSTANTS
    Minted,      \* the random tokens there can be (as many as are ever made)
    MaxStarts    \* bound: servers started

ASSUME StartupAssumption ==
    {"", "own", "development"} \cap Minted = {} /\ MaxStarts \in Nat

VARIABLES
    server,    \* the running server's configuration, or Down
    tokens,    \* the enrollment_tokens table of each database
    starts,    \* bound
    unknown,   \* history: tokens made and given to nobody, why, in which profile
    revived    \* history: profiles whose start made a revoked token work again

startupVars == <<server, tokens, starts, unknown, revived>>

-----------------------------------------------------------------------------
(* _runtime_config and what depends on it *)
\* An admin_token "development" is one of DEV_ADMIN_TOKENS, blank ones included; of
\* the DEV_ENROLLMENT_TOKENS the blank one is told apart.
Settings ==
    [profile : {"", "dev", "production", "staging"},
     admin_token : {"own", "development"},
     enrollment_token : {"own", "development", ""},
     server_trust : BOOLEAN,
     control_plane_store : {"", "sqlite", "postgresql", "mysql"}, postgres_dsn : BOOLEAN,
     telemetry_projection : {"", "sqlite", "clickhouse", "kafka"}, clickhouse_dsn : BOOLEAN,
     create_dev_token : {"default", "yes", "no"}]

ControlPlaneStore(s) ==
    IF s.control_plane_store # "" THEN s.control_plane_store
    ELSE IF s.profile = "production" THEN "postgresql" ELSE "sqlite"
TelemetryProjection(s) ==
    IF s.telemetry_projection # "" THEN s.telemetry_projection
    ELSE IF s.profile = "production" THEN "clickhouse" ELSE "sqlite"
CreatesDevToken(s) ==
    s.create_dev_token = "yes" \/ (s.create_dev_token = "default" /\ s.profile # "production")

\* What keeps a server from starting: with each of these, create_app raises.  (An
\* empty postgres_dsn outside production reaches libpq's default database.)
Refusals(s) ==
    {why \in {"profile_required"} : s.profile = ""} \cup
    {why \in {"invalid_profile"} : s.profile = "staging"} \cup
    {why \in {"unsupported_control_plane_store"} : ControlPlaneStore(s) = "mysql"} \cup
    {why \in {"unsupported_telemetry_projection"} : TelemetryProjection(s) = "kafka"} \cup
    {why \in {"clickhouse_dsn_required"} :
        TelemetryProjection(s) = "clickhouse" /\ ~s.clickhouse_dsn} \cup
    (IF s.profile # "production" THEN {} ELSE
        {why \in {"production_admin_token_rejected"} : s.admin_token = "development"} \cup
        {why \in {"production_enrollment_token_rejected"} :
            s.enrollment_token # "own"} \cup
        {why \in {"production_server_trust_required"} : ~s.server_trust} \cup
        {why \in {"production_create_dev_token_disabled"} : CreatesDevToken(s)} \cup
        {why \in {"production_postgresql_dsn_required"} :
            ControlPlaneStore(s) # "postgresql" \/ ~s.postgres_dsn} \cup
        {why \in {"production_clickhouse_dsn_required"} :
            TelemetryProjection(s) # "clickhouse" \/ ~s.clickhouse_dsn})

-----------------------------------------------------------------------------
Down == [profile |-> "none"]
Databases == {"sqlite", "postgresql"}
Bootstrap == {"own", "development"}

StartupInit ==
    /\ server = Down /\ starts = 0
    /\ tokens = [d \in Databases |-> [t \in Bootstrap \cup Minted |-> "none"]]
    /\ unknown = {} /\ revived = {}

Unused == {m \in Minted : \A d \in Databases : tokens[d][m] = "none"}

\* What create_enrollment_token inserts for a server's token: that one, or a random
\* one for a blank one.
BootstrapTokens(s) ==
    IF s.enrollment_token = "" THEN Unused ELSE {s.enrollment_token}

\* The settings a server starts with: with any others nothing is stored.
Startable == {s \in Settings : Refusals(s) = {}}

\* create_app: in dev the bootstrap token is inserted or replaced, revoked or not;
\* which one it was, create_app does not look at.
Start(s) ==
    LET d == ControlPlaneStore(s) IN
    /\ server' = [profile |-> s.profile, db |-> d]
    /\ \/ /\ ~CreatesDevToken(s)
          /\ UNCHANGED <<tokens, unknown, revived>>
       \/ /\ CreatesDevToken(s)
          /\ \E t \in BootstrapTokens(s) :
                /\ tokens' = [tokens EXCEPT ![d][t] = "live"]
                /\ unknown' = unknown \cup
                       {<<t, why, s.profile>> : why \in
                            {w \in {"start:blank_enrollment_token"} : s.enrollment_token = ""}}
                /\ revived' = revived \cup {p \in {s.profile} : tokens[d][t] = "revoked"}
StartServer ==
    /\ server = Down /\ starts < MaxStarts
    /\ starts' = starts + 1
    /\ \E s \in Startable : Start(s)

StopServer == server # Down /\ server' = Down /\ UNCHANGED <<tokens, starts, unknown, revived>>

-----------------------------------------------------------------------------
\* create_enrollment_token for whom, if the reply comes to them.
Make(lost) ==
    \E t \in Unused :
        /\ tokens' = [tokens EXCEPT ![server.db][t] = "live"]
        /\ unknown' = unknown \cup {<<t, why, server.profile>> : why \in lost}
Refused == UNCHANGED <<tokens, unknown>>

\* _agent_naming_profile and _validate_deployment_server_url: 400.
NamingRefused(naming) == naming \notin {"shigure", "shiori"}
UrlRefused(https) == server.profile = "production" /\ ~https

CreateToken == Make({})

\* download_agent_config: the naming profile is looked at after the token is made.
DownloadConfig(https, naming) ==
    IF UrlRefused(https) THEN Refused
    ELSE Make({why \in {"config:unsupported_agent_naming_profile"} :
               NamingRefused(naming)})

\* download_agent_package: everything that is checked is checked before, but the
\* binary may be gone by the time it is put into the archive.
DownloadPackage_MintsFirst(https, naming, binary) ==
    IF NamingRefused(naming) \/ binary = "missing" THEN Refused
    ELSE Make({why \in {"package:production_requires_https_server_url"} : UrlRefused(https)}
              \cup {why \in {"package:binary_gone"} : binary = "gone"})
DownloadPackage(https, naming, binary) ==
    IF NamingRefused(naming) \/ binary = "missing" \/ UrlRefused(https) THEN Refused
    ELSE Make({why \in {"package:binary_gone"} : binary = "gone"})

RevokeToken ==
    \E t \in Bootstrap \cup Minted :
        /\ tokens[server.db][t] # "none"
        /\ tokens' = [tokens EXCEPT ![server.db][t] = "revoked"]
        /\ UNCHANGED unknown

Administer ==
    /\ server # Down
    /\ \/ CreateToken
       \/ \E https \in BOOLEAN, naming \in {"shigure", "shiori", "other"} :
             \/ DownloadConfig(https, naming)
             \/ \E binary \in {"there", "missing", "gone"} :
                   DownloadPackage(https, naming, binary)
       \/ RevokeToken
    /\ UNCHANGED <<server, starts, revived>>

StartupNext == StartServer \/ StopServer \/ Administer
StartupSpec == StartupInit /\ [][StartupNext]_startupVars

-----------------------------------------------------------------------------
StartupTypeOK ==
    /\ server # Down => server.db \in Databases /\ server.profile \in {"dev", "production"}
    /\ tokens \in [Databases -> [Bootstrap \cup Minted -> {"none", "live", "revoked"}]]
    /\ unknown \subseteq Minted \X {"config:unsupported_agent_naming_profile",
                                    "package:binary_gone",
                                    "package:production_requires_https_server_url",
                                    "start:blank_enrollment_token"}
                               \X {"dev", "production"}
    /\ revived \subseteq {"dev", "production"}

\* Every token that works has somebody who was given it, with three exceptions: a
\* download refused for its naming profile and one whose binary vanished half way
\* leave one behind, and so does each start with a blank enrollment token, which is
\* refused in production.  A token that was revoked works again only because a
\* server that is not in production was started over the same database.
TokensHaveCause ==
    /\ \A u \in unknown :
          \/ u[2] \in {"config:unsupported_agent_naming_profile", "package:binary_gone"}
          \/ u[2] = "start:blank_enrollment_token" /\ u[3] # "production"
    /\ "production" \notin revived
=============================================================================
