------------------------------ MODULE Startup ------------------------------
(***************************************************************************)
(* The server's life: how src/cmd/server.rs reads its configuration        *)
(* (src/cmd/config.rs), builds its components one after the other, decides *)
(* at each failure whether to go on without or to refuse, serves, and      *)
(* stops.  What outlives the process is in the database (the SM9 master    *)
(* key, sealed under a key encryption key) and on disk (the master key of  *)
(* the backups).  A replica of the server may be starting at the same time *)
(* and shares the database.                                                *)
(***************************************************************************)
EXTENDS Naturals, Sequences, FiniteSets

CONSTANTS
    Deployments,    \* sequence of [file, env, broken]: what the file and the environment set,
                    \* and whether the file fails to parse
    MaxStarts,      \* bound: starts of the process
    MaxStartFaults  \* bound: failing calls

VARIABLES
    conf,           \* the effective configuration
    at,             \* where run is
    srv,            \* the components of this process
    listeners,      \* what the two spawned tasks are doing
    row,            \* the database: SM9 master key (0 if none) and the KEK it is sealed under
    backupFile,     \* passphrase of the persisted backup master key, "" if none
    replica,        \* the KEK of another server that has found no key it can load, "" if none has
    minted,         \* SM9 master keys generated so far
    starts, startFaults,
    keks,           \* KEK this and earlier starts had for the SM9 key, {"bad"} if several (history)
    crossed         \* two servers were generating a key at once (history)

startupVars == <<conf, at, srv, listeners, row, backupFile, replica, minted, starts, startFaults, keks, crossed>>
stored == <<row, backupFile>>
others == <<replica, minted, keks, crossed>>

-----------------------------------------------------------------------------
(* Config::load.                                                           *)

Default ==
    [backend |-> "software", tpm_backend |-> "simulated", allow_in_memory |-> FALSE,
     redis |-> TRUE, rate_limit |-> TRUE, tsa |-> FALSE, backup |-> TRUE, passphrase |-> "",
     tls |-> "none", rest_tls |-> "none", rest_backend |-> "rustls", rest_ca |-> FALSE,
     tlcp_paths |-> FALSE, api_keys |-> <<>>]

\* What the environment says goes first, ...
EnvWins == {"backend", "tpm_backend", "rate_limit", "tsa", "backup", "passphrase",
            "rest_backend", "rest_ca", "tlcp_paths"}
\* ... but a TLS section of the file is never replaced, not even a disabled one,
FileWins == {"tls", "rest_tls"}
\* ... and these are read from the file alone.
FileOnly == {"redis", "allow_in_memory", "api_keys"}

Layered(f, first, second) ==
    IF f \in DOMAIN first THEN first[f] ELSE IF f \in DOMAIN second THEN second[f] ELSE Default[f]

apply_env_overrides(file, env) ==
    [f \in DOMAIN Default |-> IF f \in EnvWins THEN Layered(f, env, file)
                              ELSE IF f \in FileWins THEN Layered(f, file, env)
                              ELSE Layered(f, file, Default)]

\* Read where they are used, from the environment alone.
ProcessEnv == [flags |-> {}, kek |-> "", kek_file |-> "", db_tls |-> "verify_ca", db_ca |-> TRUE,
               tss_build |-> FALSE, api_key |-> "s0"]

load(d) ==
    [f \in DOMAIN Default \cup DOMAIN ProcessEnv |->
        IF f \in DOMAIN Default THEN apply_env_overrides(d.file, d.env)[f]
        ELSE Layered(f, d.env, ProcessEnv)]

\* "random" is the model's name for a KEK nobody configured; [[api_keys]] is a list.
ASSUME DeploymentsAssumption ==
    \A i \in DOMAIN Deployments :
        LET c == load(Deployments[i])
        IN  /\ c.kek # "random" /\ c.kek_file # "random"
            /\ c.api_keys \in Seq([id : STRING, secret : STRING, role : STRING])

-----------------------------------------------------------------------------
(* The gates                                                               *)

is_insecure_opted_in == conf.flags \cap {"KMS_DEV_MODE", "KMS_ALLOW_INSECURE"} # {}

in_memory_fallback_permitted_Always == TRUE    \* mutant: the gate only warns
in_memory_fallback_permitted == conf.allow_in_memory \/ is_insecure_opted_in

\* BackendTlsConfig::from_env; an error ends the process.
DatabaseTlsAccepted ==
    IF conf.db_tls \in {"no_verify", "disabled"} THEN is_insecure_opted_in ELSE conf.db_ca

\* build_api_key_config: the key of the environment is the first one.
Unset == "unset"
KeyRoles == {"read-only", "operator", "key-admin", "security-officer", "audit-admin", "tenant-admin"}
build_api_key_config ==
    LET keys == <<[id |-> "default", secret |-> conf.api_key, role |-> "operator"]>> \o conf.api_keys
    IN  /\ \A i \in DOMAIN keys : keys[i].secret \notin {Unset, ""} /\ keys[i].role \in KeyRoles
        /\ \A i, j \in DOMAIN keys :
              i # j => keys[i].id # keys[j].id /\ keys[i].secret # keys[j].secret

-----------------------------------------------------------------------------

Nothing == [pool |-> FALSE, policies |-> "none", sm9 |-> 0, keystore |-> "none", kek |-> "",
            limiter |-> FALSE, backup |-> "none", audit |-> "none", dumps |-> TRUE]
Idle == [rest |-> "none", grpc |-> "none"]

StartupInit ==
    /\ conf = load([file |-> <<>>, env |-> <<>>])
    /\ at = "down"
    /\ srv = Nothing
    /\ listeners = Idle
    /\ row = [key |-> 0, kek |-> ""]
    /\ backupFile = ""
    /\ replica = ""
    /\ minted = 0
    /\ starts = 0
    /\ startFaults = 0
    /\ keks = {}
    /\ crossed = FALSE

Fault == startFaults < MaxStartFaults /\ startFaults' = startFaults + 1
Fine == UNCHANGED startFaults

Down == /\ at' = "down" /\ srv' = Nothing /\ listeners' = Idle
        /\ UNCHANGED <<conf, starts>>
Refuse == Down /\ UNCHANGED stored
Then(step, s) == at' = step /\ srv' = s /\ UNCHANGED <<conf, listeners, starts>>
Goto(step, s) == Then(step, s) /\ UNCHANGED stored

Start(d) ==
    /\ at = "down"
    /\ starts < MaxStarts
    /\ starts' = starts + 1
    /\ conf' = load(d)
    /\ at' = (IF d.broken THEN "down" ELSE "protect")
    /\ UNCHANGED <<srv, listeners, stored, others, startFaults>>

\* A failure of the memory protection is logged.
init_memory_protection ==
    /\ at = "protect"
    /\ \/ Fine /\ Goto("self_test", [srv EXCEPT !.dumps = FALSE])
       \/ Fault /\ Goto("self_test", srv)
    /\ UNCHANGED others

\* The known answer tests: each a chain of calls that may fail, the last one a
\* comparison.
Sm3SelfTest == <<"hash", "compare">>
Sm4SelfTest == <<"key", "encrypt", "compare">>
Aes256GcmSelfTest == <<"key", "seal", "compare">>
Sm2SelfTest == <<"generate", "key length", "signer", "verifier", "sign", "signature length", "verify">>
Sm9SelfTest == <<"generate", "extract", "sign", "verify", "encrypt", "extract", "decrypt", "compare">>
GmDrbgSelfTest == <<"self_test">>
Tests == <<Sm3SelfTest, Sm4SelfTest, Aes256GcmSelfTest, Sm2SelfTest, Sm9SelfTest, GmDrbgSelfTest>>

run_all_tests ==
    /\ at = "self_test"
    /\ \/ Fine /\ Goto("audit", srv)
       \/ \E t \in DOMAIN Tests : \E stage \in DOMAIN Tests[t] : Fault /\ Refuse
    /\ UNCHANGED others

\* A timestamped logger that cannot be made is replaced by a plain one, also
\* when timestamps are required.
open_audit_log ==
    /\ at = "audit"
    /\ \/ Fine /\ Goto("pool", [srv EXCEPT !.audit = IF conf.tsa THEN "timestamped" ELSE "plain"])
       \/ conf.tsa /\ Fault /\ Goto("pool", [srv EXCEPT !.audit = "plain"])
    /\ UNCHANGED others

maybe_create_mfa_pool ==
    /\ at = "pool"
    /\ \/ ~DatabaseTlsAccepted /\ Fine /\ Refuse
       \/ DatabaseTlsAccepted /\ Fine /\ Goto("policies", [srv EXCEPT !.pool = TRUE])
       \/ DatabaseTlsAccepted /\ Fault /\ Goto("policies", srv)
    /\ UNCHANGED others

load_persisted_policies ==
    /\ at = "policies"
    /\ IF srv.pool
       THEN \/ Fine /\ Goto("sm9", [srv EXCEPT !.policies = "loaded"])
            \/ Fault /\ Refuse
       ELSE Fine /\ Goto("sm9", [srv EXCEPT !.policies = "memory"])
    /\ UNCHANGED others

-----------------------------------------------------------------------------
(* The SM9 master key.  EnvVarKekStore reads KMS_KEK only, while the key   *)
(* store also takes KMS_KEK_FILE.                                          *)

Usable(k) == k \notin {"", "bad"}
\* The KEKs seen so far; of several, only that they were.
KeksWith(k) == IF keks \subseteq {k} THEN {k} ELSE {"bad"}

\* KgcMasterKey::generate.
generate_fails == at \in {"sm9", "sm9_store"} /\ Fault /\ Refuse /\ UNCHANGED others

\* Without a connection one more attempt is made, and then the key lives in
\* memory; so it does when the table cannot be made.
sm9_in_memory ==
    /\ at = "sm9"
    /\ Fault
    /\ minted' = minted + 1
    /\ Goto("backup", [srv EXCEPT !.sm9 = minted'])
    /\ keks' = KeksWith("memory")
    /\ UNCHANGED <<replica, crossed>>

\* Any error counts as "no key": a row that cannot be read or opened too.
Loads(k) == row.key # 0 /\ Usable(k) /\ row.kek = k

load_from_repository ==
    /\ at = "sm9"
    /\ keks' = KeksWith(conf.kek)
    /\ \/ Loads(conf.kek) /\ Fine /\ Goto("backup", [srv EXCEPT !.sm9 = row.key]) /\ UNCHANGED crossed
       \/ /\ \/ ~Loads(conf.kek) /\ Fine
             \/ Loads(conf.kek) /\ Fault
          /\ Goto("sm9_store", srv)
          /\ crossed' = (crossed \/ replica # "")
    /\ UNCHANGED <<replica, minted>>

\* Insert or update: a row that is there is overwritten.  Without a KEK, or
\* when the database fails, the error is logged.
Upserted(k) == [key |-> minted + 1, kek |-> k]

store_to_repository ==
    /\ at = "sm9_store"
    /\ minted' = minted + 1
    /\ \/ /\ IF Usable(conf.kek) THEN row' = Upserted(conf.kek) ELSE UNCHANGED row
          /\ Fine
       \/ UNCHANGED row /\ Fault
    /\ Then("backup", [srv EXCEPT !.sm9 = minted'])
    /\ UNCHANGED <<backupFile, replica, keks, crossed>>

\* The same two steps of another server, configured as this one is at the first.
replica_load ==
    /\ at # "down"
    /\ replica = "" /\ ~Loads(conf.kek) /\ Usable(conf.kek)
    /\ replica' = conf.kek
    /\ crossed' = (crossed \/ at = "sm9_store")
    /\ UNCHANGED <<conf, at, srv, listeners, stored, minted, starts, startFaults, keks>>

replica_store ==
    /\ replica # ""
    /\ replica' = ""
    /\ minted' = minted + 1
    /\ row' = Upserted(replica)
    /\ keks' = KeksWith(replica)
    /\ UNCHANGED <<conf, at, srv, listeners, backupFile, starts, startFaults, crossed>>

-----------------------------------------------------------------------------

\* KeyBackupService::load_or_create, or an ephemeral key.
open_backup ==
    /\ at = "backup"
    /\ \/ ~conf.backup /\ Fine /\ Goto("keystore", srv)
       \/ /\ conf.backup /\ conf.passphrase # ""
          /\ \/ /\ backupFile \in {"", conf.passphrase} /\ Fine
                /\ backupFile' = conf.passphrase /\ UNCHANGED row
                /\ Then("keystore", [srv EXCEPT !.backup = "persisted"])
             \/ backupFile \notin {"", conf.passphrase} /\ Fine /\ Refuse
             \/ Fault /\ Refuse
       \/ /\ conf.backup /\ conf.passphrase = ""
          /\ \/ ~in_memory_fallback_permitted /\ Fine /\ Refuse
             \/ /\ in_memory_fallback_permitted /\ Fine
                /\ Goto("keystore", [srv EXCEPT !.backup = "ephemeral"])
             \/ in_memory_fallback_permitted /\ Fault /\ Goto("keystore", srv)
    /\ UNCHANGED others

\* KekSource: the file goes first; any error of either is one of the source.
Source == IF conf.kek_file # "" THEN conf.kek_file ELSE conf.kek

\* PostgresKeystore::load_or_generate_kek: with KMS_DEV_MODE every error, that
\* of a KEK that is set and unusable too, ends in a random key.
Kek == IF Usable(Source) THEN Source
       ELSE IF "KMS_DEV_MODE" \in conf.flags THEN "random" ELSE "exit"

\* The in-memory key store stands in if it may; s is what there is besides.
FallBack(s) ==
    IF in_memory_fallback_permitted THEN Goto("keys", [s EXCEPT !.keystore = "memory"]) ELSE Refuse

create_software_keystore(s) ==
    IF ~srv.pool THEN Fine /\ FallBack(s)
    ELSE \/ Kek = "exit" /\ Fine /\ Refuse
         \/ Kek # "exit" /\ Fine /\ Goto("keys", [s EXCEPT !.keystore = "postgres", !.kek = Kek])
         \/ Kek # "exit" /\ Fault /\ FallBack(s)

create_tpm_keystore(s) ==
    IF conf.tpm_backend = "tpm2-tss"
    THEN IF conf.tss_build THEN Goto("keys", [s EXCEPT !.keystore = "tpm"]) ELSE Refuse
    ELSE IF in_memory_fallback_permitted THEN Goto("keys", [s EXCEPT !.keystore = "tpm-sim"]) ELSE Refuse

\* maybe_create_rate_limiter, maybe_create_quota_tracker: each asks for a Redis
\* connection of its own, and there is none if it fails.
Limiters == {[srv EXCEPT !.limiter = made] :
                made \in {FALSE} \cup (IF conf.redis /\ conf.rate_limit THEN {TRUE} ELSE {})}

\* Only the branch with Redis connected looks at the backend: the others make
\* a software key store.
choose_keystore ==
    /\ at = "keystore"
    /\ \E s \in Limiters, connected \in BOOLEAN :
          /\ connected => conf.redis
          /\ IF connected /\ conf.backend = "tpm" THEN Fine /\ create_tpm_keystore(s)
             ELSE create_software_keystore(s)
    /\ UNCHANGED others

load_api_keys ==
    /\ at = "keys"
    /\ Fine
    /\ IF build_api_key_config THEN Goto("listen", srv) ELSE Refuse
    /\ UNCHANGED others

-----------------------------------------------------------------------------
(* Serving and stopping.  The gRPC gate is passed before anything is       *)
(* spawned; the REST gate is inside the spawned task, whose error nobody   *)
(* looks at before the end.                                                *)

grpc_gate ==
    /\ at = "listen"
    /\ Fine
    /\ IF conf.tls = "none" /\ ~is_insecure_opted_in THEN Refuse
       ELSE /\ at' = "serving"
            /\ listeners' = [rest |-> "starting", grpc |-> "starting"]
            /\ UNCHANGED <<conf, srv, starts, stored>>
    /\ UNCHANGED others

Becomes(l, state) ==
    /\ listeners' = [listeners EXCEPT ![l] = state]
    /\ UNCHANGED <<conf, at, srv, starts, stored, others>>

Plain == IF is_insecure_opted_in THEN "plain" ELSE "failed"
RestOpens ==
    CASE conf.rest_tls \in {"none", "disabled"} -> Plain
      [] conf.rest_tls = "broken" -> "failed"
      [] conf.rest_backend = "gm" /\ ~conf.rest_ca -> "failed"
      [] conf.rest_backend = "tlcp" /\ ~conf.tlcp_paths -> "failed"
      [] OTHER -> "tls"

rest_listen ==
    /\ listeners.rest = "starting"
    /\ \/ Fine /\ Becomes("rest", RestOpens)
       \/ Fault /\ Becomes("rest", "failed")

GrpcOpens == IF conf.tls = "none" THEN "plain" ELSE IF conf.tls = "valid" THEN "tls" ELSE "failed"
grpc_listen ==
    /\ listeners.grpc = "starting"
    /\ \/ Fine /\ Becomes("grpc", GrpcOpens)
       \/ Fault /\ Becomes("grpc", "failed")

Signal ==
    /\ at = "serving"
    /\ at' = "stopping"
    /\ UNCHANGED <<conf, srv, listeners, stored, others, starts, startFaults>>

Open == {"plain", "tls"}
rest_stops ==
    /\ at = "stopping" /\ listeners.rest \in Open
    /\ Becomes("rest", "ended") /\ Fine

\* serve_with_shutdown; serve_with_incoming, the way of mTLS, takes no signal.
Stoppable_Never(state) == FALSE    \* mutant: no shutdown future either
Stoppable(state) == state = "plain"
grpc_stops ==
    /\ at = "stopping" /\ Stoppable(listeners.grpc)
    /\ Becomes("grpc", "ended") /\ Fine

join ==
    /\ at = "stopping"
    /\ \A l \in DOMAIN listeners : listeners[l] \in {"ended", "failed"}
    /\ Refuse /\ Fine /\ UNCHANGED others

Kill == at # "down" /\ Refuse /\ Fine /\ UNCHANGED others

StartupNext ==
    \/ \E i \in DOMAIN Deployments : Start(Deployments[i])
    \/ init_memory_protection \/ run_all_tests \/ open_audit_log
    \/ maybe_create_mfa_pool \/ load_persisted_policies
    \/ generate_fails \/ sm9_in_memory \/ load_from_repository \/ store_to_repository
    \/ replica_load \/ replica_store
    \/ open_backup \/ choose_keystore \/ load_api_keys \/ grpc_gate
    \/ rest_listen \/ grpc_listen \/ Signal \/ rest_stops \/ grpc_stops \/ join
    \/ Kill

StartupSpec == StartupInit /\ [][StartupNext]_startupVars

\* The listeners come up and go down: tokio polls its tasks, and clients close
\* their connections.
StartupFairness ==
    /\ WF_startupVars(rest_listen) /\ WF_startupVars(grpc_listen)
    /\ WF_startupVars(rest_stops) /\ WF_startupVars(grpc_stops) /\ WF_startupVars(join)

-----------------------------------------------------------------------------
(* Properties.                                                             *)

\* A server that serves is fail-closed, whatever failed on the way: its keys
\* are persistent, its backups recoverable, its key encryption key the
\* configured one and its listeners encrypted, or the operator opted out of
\* exactly that; and with a database its policies are in force.
FailClosed ==
    at = "serving" =>
      /\ srv.keystore \in {"postgres", "tpm"} \/ conf.allow_in_memory \/ is_insecure_opted_in
      /\ srv.backup = "ephemeral" => conf.allow_in_memory \/ is_insecure_opted_in
      /\ srv.kek = "random" => "KMS_DEV_MODE" \in conf.flags
      /\ srv.pool => srv.policies = "loaded"
      /\ \A l \in DOMAIN listeners : listeners[l] = "plain" => is_insecure_opted_in
      /\ \A i, j \in DOMAIN conf.api_keys : i # j => conf.api_keys[i].secret # conf.api_keys[j].secret

\* Every server uses the stored SM9 master key, and it is the first one ever
\* stored, over restarts and next to a replica, as long as no call failed, the
\* KEK in KMS_KEK was always the same usable one, and no two servers found the
\* table empty at once.  (Each of the three costs the key: README,
\* Disagreements.)
Sm9MasterKept ==
    startFaults = 0 /\ ~crossed /\ (\E k \in keks : Usable(k) /\ keks = {k}) =>
      /\ srv.sm9 \in {0, row.key}
      /\ row.key \in {0, 1}

\* A server starts securely or not at all, and keeps its SM9 master key.
StartupSound == FailClosed /\ Sm9MasterKept

\* A server that is asked to stop does, unless its gRPC listener uses mTLS
\* (which no signal reaches).
ShutdownCompletes == (at = "stopping" /\ listeners.grpc # "tls") ~> (at # "stopping" \/ listeners.grpc = "tls")

=============================================================================
