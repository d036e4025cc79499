# gm-kms: a TLA+ model of the key management server

TLA+ modules for the parts of gm-kms whose correctness depends on order: of
critical sections, awaited database calls, clock readings, failures and
restarts. TLC checks them on small instances, TLAPS proves the central
properties for every value of the constants. Source paths are relative to the
repository; `kms-keystore`, `kms-approval`, `kms-audit` and so on are under
`crates/`.

## 1. The system

gm-kms is a Rust server (REST and gRPC, `kms-api`) that creates, uses, rotates
and destroys keys of several tenants. Handlers call services, services a
`KeystoreBackend`; sensitive operations pass an approval gate, and everything
is written to an audit log.

| part | state | operations | how it meets the others |
|---|---|---|---|
| software key store, `kms-keystore/src/software/mod.rs` | a table of entries (material, version, archived versions, status, tenant) behind one lock | generate, import, export, encrypt, decrypt, sign, rotate, delete, destroy | called by every service; takes the lock once for the tenant check and once for the operation |
| PostgreSQL key store, `postgres.rs`, `repository.rs` | rows `keys` and `key_versions`, a cache of decrypted entries, the flag `keys_ready` | the same, each a sequence of awaited queries; a background preload | owns a bounded cache; survives a restart only through its rows |
| bounded cache, `bounded_cache.rs` | a map and an insertion queue under two locks, counters | insert with eviction, remove, clear, get | used by the PostgreSQL key store from many tasks |
| approval engine, `kms-approval` | requests with votes, status, deadline | create, approve, reject, cancel, clean-up, restore | REST handlers drive it; `require_approved` in `kms-api/src/rest.rs` asks it before rotation, deletion and export |
| break-glass access, `kms-approval/src/lib.rs` | emergency requests | create, two confirmations, cancel, clean-up, check | beside the approval engine |
| WORM audit log, `kms-audit/src/worm_*.rs`, `verifier.rs` | sequence number, previous signature, open file and path, running hash, buffer, the directory of files | log, rotate, append, flush, read back, verify | called from anywhere, concurrently |
| buffered, signed and timestamped audit loggers, `kms-audit/src/logger.rs`, `timestamp.rs`, archive `s3_archive.rs` | the same chain, a buffer, the latest trusted timestamp, the files | log, flush, query, background request to the timestamp authority, archive, clean up | the server's default loggers |
| API, `kms-api/src/rest.rs`, `grpc.rs` | the request in hand | one handler per operation and channel | calls everything below, in an order written out in each handler |
| API keys, `kms-api/src/auth.rs` | a sequence of keys with role, tenant, expiry, lock, behind one mutex | validate, authorise, lock, rotate, revoke | the middleware reads it four times per request |
| policy engine, `kms-policy` | a map of policies and its table | evaluate, add, remove, load | asked by the handlers; written table first |
| key, crypto and envelope services, quota, `kms-api/src/service`, `quota.rs` | counters in Redis | create, use, rotate, delete, export, envelopes | several calls of the key store and of Redis each |
| rotation scheduler, rate limiters, MFA, anomaly detector, `kms-api`, `kms-mfa` | counters and windows in Redis or memory; TOTP secrets, backup codes, lock-outs | check and rotate; check; verify, consume, lock; record and alert | in front of or beside the handlers |
| what servers share through Redis: cached key store `cache.rs`, key exchange sessions `sm2_kex_session.rs` | metadata, sessions | read, change, write back | several servers at once |
| SM2 key exchange, simulated TPM | sessions with history; NV storage and registers | create, accept, process, result; seal, use, destroy | in the key stores |
| SM9 and secret versions, webhooks, `kms-core` | lines of versions and a registry; deliveries | register, rotate, roll back; broadcast, retry | managers used by callers of the library |
| backup, Shamir, secure memory, random numbers, `kms-core` | files, a sealed master key; shares; locked pages; generators | backup, restore, clean up; split, reconstruct; allocate, drop; draw, reseed | what a key is made of and recovered from |
| the process, `src/cmd/server.rs`, `config.rs`, `kek_source.rs` | configuration, the components built so far, listeners | start step by step, serve, stop | decides which of the others exist |

What is hard to test in this code:

* **interleavings**: `verify_tenant` drops the lock the operation takes again;
  the cache's map and queue have separate locks; every database call is a point
  where other calls run; the audit logger takes a sequence number, the previous
  signature and the file under three different locks;
* **partial failure**: a rotation in PostgreSQL is five writes, each of which can
  fail, or be reported as failed after it took effect; a rotation in memory can
  be rejected halfway; an audit line can be torn;
* **restart**: caches, votes in memory, the audit chain's head and the buffers go,
  rows and files stay;
* **time**: deadlines of requests and of emergency access, with or without the
  clean-up having run; files named after the second they are created in;
* **readiness and end**: the preload has to finish whatever rows it meets, and
  the process to stop when it is told to;
* **authority**: the credential, the policy, the approval and the owner of a key
  are looked up in separate steps, and each may change before the effect; two
  channels spell the same checks out twice;
* **start-up**: a dozen steps may fail, each handled in its own way.

The properties that make each part correct are listed in section 3; the hazards
they answer, line by line, are in `PROJECT.json`.

## 2. Plan

| step | module | about | state |
|---|---|---|---|
| 1 | `SoftwareKeystore`, `KeyLifecycle` | the key table, and the life of a key it promises | checked, proved, refinement proved |
| 2 | `ApprovalEngine` | quorum, deadlines, restore, the gate | checked, proved |
| 3 | `BreakGlass` | emergency access | checked, proved |
| 4 | `BoundedKeyCache` | eviction under concurrency | checked, proved |
| 5 | `PostgresKeystore` | rows, cache, rotation, preload, restart | checked, proved |
| 6 | `WormAuditLog`, `AuditDelivery` | chain, files, rotation, verification; buffers, timestamps, archive | checked; the verifier's verdict and `AuditDelivery` proved |
| 7 | `KmsApi` over `ApiKeys`, `PolicyEngine`, `PolicyConditions` | requests over both channels, credentials, policies | checked, proved but for `PolicyConditions` |
| 8 | `KeyServices`, `Mfa`, `RateLimits`, `RotationScheduler`, `Anomaly` | what stands behind and in front of the handlers | checked, proved |
| 9 | `RedisCachedKeystore`, `RedisKexSessions`, `Sm2Kex` | sessions and caches, in one server and shared | checked, proved |
| 10 | `Startup`, `KeyBackup`, `Shamir`, `Tpm`, `SecureMemory`, `Randomness` | the process and what keys are made of and recovered from | checked, proved but for `Shamir` |
| 11 | `Sm9Rotation`, `SecretRotation`, `Webhooks` | managers of versions, deliveries | checked; the managers proved |

`ServiceParts` composes the modules of which two serve one purpose: the Redis
stores, the version managers, the second factor, the counters of accesses.
`KeyBackup` ends with its composition with `SecureMemory` and `Randomness`. The
proofs of the components of `services` are in `Services_proofs` and
`ServiceParts_proofs`, those of `platform` in `Platform_proofs`; every other
`*_proofs` module is named after its component. What is left to TLC, and why, is
said at the end of section 4.

## 3. Modules, runs and what they show

`MC*.tla` and `MC*.cfg` instantiate a module for TLC. The definitions carry the
names of the functions they model; `map` in `PROJECT.json` gives the lines. A
definition whose comment says *mutant* is a wrong variant of the one after it;
`mutants` in `PROJECT.json` says which property it breaks. History variables
(marked so) record what was answered and are read by properties only. None of the
runs checks for deadlock: the bounds on calls, ids and clock readings stop every
instance, and the servers themselves may be idle for ever.

### SoftwareKeystore and KeyLifecycle

`keys` is the key table, `calls` the requests that have passed `verify_tenant`
and not yet taken the lock again, `outputs` what callers got. `Call` is
`verify_tenant`; `encrypt`, `sign`, `export_key_material`,
`get_key_material_version`, `rotate_key`, `rotate_key_rejected`, `delete_key` and
`destroy_key` are the second critical section; `Refuse` is every error return
that changes nothing. Material is opaque: generated material is fresh, imported
material may repeat, and the empty vector `std::mem::take` leaves is a value of
its own.

*Run `software_lifecycle`* (one key id, two tenants, two callers, four specs:
two with a generator and encryption, one that only signs, one without a
generator; three materials and three archived versions, enough for a rejected
and repeated rotation around two accepted ones):
`HistoryReadable`, the owner can decrypt whatever the key ever encrypted;
`VersionIdentity`, a version number never stands for two materials;
`TenantIsolation`; `DeletionFinal`, nothing makes a soft-deleted key Active again,
not even a rotation between whose two critical sections the deletion fell;
`ImplementsLifecycle`, seen
through the refinement mapping `lives` every step is a step of `KeyLifecycle`
(creation, single-step rotation, soft delete, destruction) or none.

`DeletionFinal` says what the code does, and it is not what the requirements ask
for: `F1-key-lifecycle.md` (FR1.3.2, the state machine of F1.4 and the ticked
acceptance criterion at line 42) and `docs/wiki/software-keystore.md` say that a
soft-deleted key can be recovered in a grace period. No operation does that:
only `rotate_key` writes Active, and `can_rotate` refuses a key in
PendingDeletion. `KeyLifecycle`, taken from the trait `KeystoreBackend`, has no
recovery either. A team that adds a recovery has to give `DeletionFinal` up, and to
add the action to both modules.

*Run `software_rejected_rotation`* (violation): `rotate_key` moves the material
into the history before it finds that the spec has no generator, and returns the
error without putting it back; the key stays Active with empty material and
`export_key_material` hands out zero bytes. `HistoryReadable`
excepts the ciphertexts of the current version of such a key: for the current
version decryption uses the emptied current material, not the copy in the
history.

### ApprovalEngine

`requests` are the requests in memory, `born` and `grants` history. Actions are
whole handlers, since the engine is behind one lock: `create_request`, `approve`,
`reject`, `cancel`, `cleanup_expired`, `restore_request`, the clock, and the gate
`require_approved`. The engine keeps its requests in memory only, so that
`Restart` loses them all. `restore_request` takes a request that its caller kept;
nothing in the repository keeps any, and only tests call it. What a caller may
have kept is therefore left open: `persist`, external to the code, adds a copy of a
request as it is now to `saved`, at any time and as often as it likes
(`MaxCopies`, two: one from before a decision and one from after), and
`restore_request` may be handed any of them, however old.

*Run `approval_workflow`* (one request, four credentials of different roles and
tenants, one bound to no tenant; operations with a quorum of two and with an
administrator's vote; clock readings on and just past both deadlines; one id is
enough because no handler looks at two requests):
`GrantsSound`, whatever passes the gate has, in time, the quorum of different
credentials entitled to vote in that tenant and no rejection;
`StatusMatchesVotes`; `DecisionsStick`, while the process runs a decided request
is never revised by late votes, cancellations, clean-up or a restoration, and once
no copy of it from before its decision is left, by nothing at all. Where a caller
did keep such a copy and hands it in after a restart, the decision is open again:
a rejected request can then be approved. The property names this exception; the
engine cannot tell an old copy from a new one.

### BreakGlass (run `services`)

Two requests for one resource, two users, half an hour and more than the cap,
readings on and past the deadlines: `AccessBounded`, access is open at most an
hour after a request the named second approver confirmed in time, whether or not
the clean-up ever runs; `OutcomeFinal`.

### BoundedKeyCache (run `services`)

One action per critical section; `pc` says where each thread is. Two keys, three
threads of which one removes, capacity one, four insertions: every insertion
overflows, and a victim can be popped by one thread and removed or re-inserted by
another. `CacheSound` is the conjunction of `EvictableWithinCap`, with no
insertion under way the entries the queue knows are within the capacity, of
`CapUntilRemoval` and of `TrackedUntilRemoval`, until the first `remove` no entry
is lost from the queue and the map itself is within the capacity.

The last condition is needed: if a key is loaded again between the two critical
sections of `remove`, the new entry loses its place in the queue. It can then
never be evicted, and the map holds more than its capacity for good.

### PostgresKeystore

`db` and `archive` are the tables, `cache` the decrypted entries, `pc` the calls
in flight, `preload` the background task. Every query is an action; a failing
one ends the call with the rows as they were, or as they would have been. The
cache is `BoundedKeyCache` seen from outside: insertion, change in place,
removal, and `Evict` at any time, which covers any capacity and every eviction
order. Each key id draws its own material, so the material is named after the
id.

*Run `postgres_rotation`* (two callers, three ids so that one key is rotated
twice or two keys once, one failure at any query, evictions):
`AcknowledgedDurable`, whatever creation, import or rotation returned Ok is in
the rows with its material; `RotatedOnce`, at most one rotation of a key
returns Ok and leaves it archived and Obsolete, although two may pass the status
check together (the unique constraint of `key_versions` decides). One spec is
enough here: neither property reads it.

*Run `postgres_use`* (two tenants, one key, a failure, a restart, the preload;
encrypt, decrypt and get_key_material stand for the three demands on the status;
SM4 and P-384 for the specs that a row gives back and those that it does not):
`TenantIsolation`; `ReloadFaithful`, what is cached is what was created under the id,
with its own material, but for the status, and but for its spec if it is one of five
(P-384, Ed448, SM3-HMAC and the two of SM9): such a key is cached as it was created
or, once it came from its row, as AES-256-GCM; `DeletionEffective`, no operation that needs an Active key and begins
after `delete_key` returned succeeds, unless a load that had read the row before
the deletion, or a rotation that had made it, wrote its entry back after it, which
the code allows;
`PreloadCompletes`, once the preload has its list the server becomes ready,
under weak fairness of the preload task alone: tokio polls it, and its queries
return or fail (`FairSpec`). No fairness is assumed of callers, failures or
restarts.

*Run `postgres_destroyed_revived`* (violation): `destroy_key` removes the cached
entry only; the next call loads the key again from its row.

Not stated as a property: a rotation that fails after its first write leaves one
more Active row, and a retry one more again; nothing in the repository says it
must not.

### WormAuditLog

`log` is five critical sections (`take_sequence`, `read_previous`,
`set_previous`, append, `push`), the append up to four more (`maybe_rotate`,
`rotate_close`, `rotate_freeze`, `rotate_forget`, then `append_open`,
`append_new` or `append_refused`), `flush` two. `files` is the directory. A
write ends well, unsynced, without its newline, torn or not at all; a line that
lacks its end swallows the next one. The HMAC is ideal and events are distinct,
so a signature is the number of the entry in signing order. The clock counts
seconds and never goes back; as a file's age is a difference of instants, a
difference of exactly `RotationAge` ticks may or may not be over it.

*Run `worm_audit`* (two callers, three entries, three seconds, one restart, one
failure, buffer of two: two rotations in a life, a loss between two entries, a
restart in the second of the last file, two callers that both find the buffer
full). For every interleaving: `OrderKept`, the directory reads back in the order of writing and
no entry is flushed twice or, without a failure, lost from buffer and output;
`HashChainMatches`, the running hash covers what the files hold, in their order,
and after failures misses at most one entry per failure. For lives of the process
without overlapping calls of `log`: `VerdictSound`, an undisturbed log verifies
after any rotations and restarts (`NoFalseAlarm`), and a file that verifies has no
gap (`LossDetected`).

The restriction to lives without overlap is not a convenience: two overlapping
calls read the same previous signature and the genuine log fails verification;
a lost entry of a forked chain goes unnoticed; and a call that opens the next
file while another is between `rotate_close` and `rotate_forget` has its new file
made read-only and its path forgotten, so that this file is never rotated and the
old one stays writable. A loss at the end or the start of a file is not noticed in any
case, as files are verified one by one.

Not modelled: `WormWriter::verify_chain`, which the server runs at start-up
through `startup_verify_chain` (`src/cmd/server.rs:703`). It compares
`previous_signature` with a hash of the previous entry, while the loggers store
the previous signature, and the number of entries with `entry_count - 1`; it
therefore reports every log of two entries as tampered.

### AuditDelivery (run `platform`)

The three loggers, each call in its critical sections, the task that asks the
timestamping authority, the archive and the clean-up. `AuditSound`: `Conserved`,
every event logged is in exactly one place (with its caller, buffered, written,
archived) or was lost in a way the model names (the process ended, a write
failed, the clean-up removed its file); `FullIsFlushed`, a full buffer never
waits; `Numbered`, the entries of one process have distinct numbers; `TsaCounted`.

*Run `signed_chain_forks`* (violation): two calls of the signed logger, which
holds one lock at a time, chain to the same entry or push in another order than
they signed: a log nobody touched fails verification.
*Run `tsa_token_misread`* (violation): the token is cut out of the authority's
response at the wrong positions, so that no granted timestamp is ever kept.

### KmsApi over ApiKeys and PolicyEngine (run `api_requests`)

A handler is the sequence of its steps (`Program`), taken from the route, the
middleware and the handler's body, once for REST and once for gRPC. Between two
groups of steps other requests, the clock, a hang-up or a restart may come. `req`
is each client's request, `facts` (history) what was true at some moment of it.
One client sends one request of any kind, the other an administrator's: two
tenants with a key each, credentials of five roles bound to one tenant or to none,
a policy that allows and one that denies, approvals granted and pending. An approval
has an id, which a caller names and a new request draws at random (`FreshIds`: nobody
has it or asked for it yet; five ids are enough for those there are and for one that
each client creates). A request has taken effect (`effect`) from the first step on
at which what it asked for is read, used or changed for it (`Effects`): the call of
a service, and every reading, writing or deletion of a policy, an approval request
or a second factor, in the database or in the engine. `Authorised`: every effect
had, while its request ran and before it took effect, the credential and the
permission it needs and, by the operation, the policy, the approval and the
ownership; what an operation needs is stated apart from the handlers (`Needs`,
`Required`). `TenantConfined`: a bound caller never acts on a key of another
tenant, nor asks for, reads or decides on an approval request there.
`ChannelsAgree`: REST and gRPC ask for the same authority. `AnsweredIsAudited`: an
answered operation on a key, a policy, an approval request or a second factor has
left its event, but for the reads that `Silent` names, which write none. Mutants
drop a permission from the policy routes, the owner check from the creation of an
approval request, and the event from the creation of a policy.
`PolicyDurable`: an answered change of policies is in force and stored, over
dropped requests and restarts.

### The run `services`

The components behind the handlers share no state; `part` says which of them a
behaviour is about, so that one run checks fifteen instances, with two callers
each (symmetric where nothing orders them), one failure and small clocks.

* `ServicesSound` (`KeyServices`): the quota may be overrun but never silently,
  whatever calls overlap or fail (`QuotaHolds`); an answer is computed with the
  caller's own key, under the version asked for, and an envelope opens with the
  version written on it unless a rotation came between the two reads
  (`AnswersFaithful`).
* `CredentialsSound` (`ApiKeys`): a rotation never leaves its client without a
  valid key, a revoked id authenticates nobody while one key bears it.
* `MfaSound` (`Mfa`): wrong codes looked at between two openings of
  the lock are bounded, a backup code is good once but for the overlap the code
  has, who uses the codes up loses the API key, which is claimed without a database only
  (with one, a restart keeps the usage and forgets the lock of the key); a TOTP code is valid in its step
  and the tolerated ones around it, and after the first lock of the backup codes
  one wrong code is looked at per lock-out.
* `CountersSound` (`RateLimits`, `Anomaly`): no limiter lets more through than its
  limit and what its two-step counting allows; of as many failed logins in a
  quarter of an hour, or accesses of a user, as the limit, one raises an alert. A
  request of the sliding limiter does not wait a second between its two calls.
* `RotationSound` (`RotationScheduler`): keys are rotated when their policy asks,
  once per scheduler and period.
* `AccessBounded`, `OutcomeFinal` (`BreakGlass`), `CacheSound` (`BoundedKeyCache`).
* `RedisSound` (`RedisCachedKeystore`, `RedisKexSessions`): no answer comes from a
  stale entry, and the entry is gone one time to live later; a replay needs an
  overlap or an old message, and no sequence of writes keeps a session beyond its
  time by more than what is rounded off and how long the last write took. The clock
  is read in milliseconds and Redis counts in seconds: `save_session` takes the age
  in whole seconds from the session's time (`Remaining`), so that a write at an age
  of 1.5 s sets 299 s, and the session may live up to one reading short of a second
  longer than its 300. The model has two readings a second and sessions of two
  seconds, so that writes fall on and between the seconds; it takes the clock of the
  servers and that of Redis for one.
* `VersionsSound` (`Sm9Rotation`, `SecretRotation`): versions have one key each,
  the newest is in use unless a step failed, grace periods end.
* `MatchersSound` (`Webhooks`, `PolicyConditions`): a delivery's status is what
  happened at the endpoint, and an event reaches the webhooks it matches once
  each; no glob, time range or condition is true of more than it means (globs of
  up to three parts against every text of up to four letters, with a reference
  definition).

### The run `platform`

* `StartupSound`, `ShutdownCompletes` (`Startup`): 32 deployments (file,
  environment, flags) started twice with one failing call, next to a replica. A
  server that serves is fail-closed or its operator opted out of exactly that; it
  keeps its SM9 master key as long as no call failed, the KEK stayed the same and
  no two servers created the key at once. A server told to stop does, under weak
  fairness of its listener tasks and of the join (`StartupFairness`): tokio polls
  a task whose future is ready; only the gRPC listener with mTLS never is. It rests on
  clients that close their connections: the code sets no deadline for the drain.
* `ShamirSound` (`Shamir`): a threshold of shares gives the secret, anything else the
  secret or an error.
* `MaterialSound` (`KeyBackup`, `SecureMemory`, `Randomness`): with two servers, a
  shared directory, days, a failing disk and altered files a restore gives the right
  key or an error, and an acknowledged backup is restorable until it is altered or
  cleaned up, unless two servers created the master key at once; key bytes in a `SecureBox` lie on
  locked pages from the first to the last and are zeroed before the page is
  unlocked, at every fill of the lock limit; a generator is fed in time also when
  the entropy fails, and two generators repeat each other only as clones, for less
  than one interval.
* `KexSound` (`Sm2Kex`): a message is acted on once within the history, a responder
  has a secret only after its initiator, both have the same.
* `AuditSound` (above); `TpmSound` (`Tpm`): a sealed key stays closed once a
  register changed, ciphertexts stay readable, destruction proofs are true and one.

## 4. Proofs

`*_proofs.tla` EXTEND the module they are about; tlapm checks every step. The
assumptions are the named `ASSUME`s of the modules, which TLC evaluates in their
runs. Most only give the parameters a type. Those that say more: the declared API keys
have distinct ids and secrets (`DeclaredAssumption`; the server does not start
otherwise, `src/cmd/server.rs`), a request is one that some route serves
(`RequestsAssumption`), the approvals there are at the start have distinct ids and the
tenant of a requestor bound to one (`ApprovalsAssumption`), the keys the services start
with have owners (`ServicesAssumption`), the numbers in a rotation policy are
unsigned (`SchedulerAssumption`), a buffer holds an entry and a logger is of one of the
three kinds (`DeliveryAssumption`), the history of a key exchange is kept as long as the
session (`KexAssumption`, 60 seconds both in `software/mod.rs`), no deployment is
given the name by which the model calls a KEK drawn at random (`DeploymentsAssumption`),
"none" names no caller or message (`Sm9Assumption`, `KexSessionsAssumption`), the two
answers of a restore that name no key are no keys' names (`BackupAssumption`), and no page
of the heap is one of a map (`SecureMemoryAssumption`). Where
requests or codes are counted, there are finitely many of them (`RateLimitsAssumption`,
`MfaAssumption`, `MfaCodesAssumption`), without a bound on how many. Each inductive
invariant was checked with TLC on the instance of its run before it was proved.

* **SoftwareKeystore_proofs.** `IndInv == TypeOK /\ EntryInv /\ CallInv /\
  OutputInv /\ VersionIdentity`. `HistoryReadable` is not inductive: a rotation
  keeps a ciphertext readable only if the first archived entry with its version
  is the material it was made with. `EntryInv` says that archived versions are
  older than the current one, or as old only when a rejected rotation has emptied
  it, and that a first occurrence exists; `OutputInv` that the material of every
  answer is retained where `decrypt` looks; `CallInv` that what `verify_tenant`
  established stays true between the critical sections, because an id is never
  drawn again. Theorems: `TypeCorrect`, `Isolation`, `VersionsNameMaterial`,
  `CiphertextsStayReadable`, `DeletionIsFinal`, and `LifecycleImplemented`, the
  refinement of `KeyLifecycle`.
* **ApprovalEngine_proofs.** The inductive invariant is `TypeOK /\ CopyInv /\
  GrantInv`. `CopyInv`: every copy of a request, live or kept elsewhere at whatever
  time, is faithful to how the request was born, its approvers are distinct and its
  status is what its votes say. `GrantInv`: what was let through had its quorum in
  time (`GrantsSound`) and is a request that was created. Theorems: `GateIsSound`,
  `DecisionsAreFinal`, which needs no more than the type of the copies and holds
  whatever copies are kept and handed in, `VotesDecide`, `TypeCorrect`.
* **PostgresKeystore_proofs.** `IInv == Faithful /\ History`. `Faithful`: rows,
  archive, cache, preload and every call in flight hold what was created under their
  id, as far as the call has come. `History`: an id in creation belongs to one call
  (`Owned`); what is acknowledged, or is past its write in a call, is stored
  (`Durable`); a rotation past its archive entry is the only one of its key
  (`Succession`: the insertion into `key_versions` is what two rotations race for);
  a deletion that returned left nothing that could make the key active again
  (`Deleted`). Theorems: `TypeCorrect`, `Isolated`, `Durability`, `SingleSuccessor`,
  `DeletionHolds`, and `ReloadIsFaithful`, for all twelve specs: `Faithful` says of
  every entry, cached or in the hands of a call, that it is what was created or what a
  reload makes of it.
* **WormAuditLog_proofs.** In a life without overlapping calls sequence numbers,
  signatures and previous signatures run in step from where the life began
  (`Single`, `InStepFiles`), a file without failures has no hole (`CompleteFiles`) and
  the open one ends with the entry before the pending one (`EndsRight`). From these,
  `VerdictIsSound`: the verifier raises no false alarm and misses no gap inside a file.
* **KmsApi_proofs.** First lemmas about the programs: in each of the handlers, over
  each channel, the first of the steps in `Effects` stands behind the authentication, the resolution of the
  tenant, the policy and, where it is gated, the approval (`RestHandlers`,
  `GrpcHandlers`, `Programs`). Then the invariant, per client: the steps still to do are
  a suffix of its program (`Formed`, `Reached`), the effect has its facts (`Justified`),
  a bound caller stays in its tenant (`Confined`), and what is true now is among the
  facts recorded; with the ids of API keys and approvals naming one each (`Credentials`,
  `Filed`). Theorems: `AuthorityIsFresh`, `TenantsAreConfined`, `AnswersAreAudited`,
  `PoliciesAreDurable`, `ChannelsAskTheSame`.
* **Services_proofs.** Five components.
  `KeyServices`: a call that read a version knows the current one unless a rotation
  marked it, every key is counted, about to be or lost, and a request past the minute's
  counter holds a place until the day's (`ServicesInv`); theorems `QuotaIsAccounted`,
  `AnswersAreFaithful`, `ServicesAreSound`.
  `ApiKeys`: a key that is to expire has its replacement or a call that will add it,
  and of the keys with a revoked id the first is revoked (`CredsInv`); theorem
  `CredentialsAreSound`.
  `RotationScheduler`: `OncePerPeriod` is not inductive. `Paid` is: every rotation so
  far, and every one that a check from before the last rotation still leads to, was
  paid for by a period that had passed by the last rotation, and a period pays for as
  many as there are schedulers; the calls that found the key old since then are no more
  than that, and the key was old for them (`PlanKnows`). Theorem `RotationsAreSound`.
  `BreakGlass`: a deadline is at most an hour after the creation, and an activated
  request has a recorded confirmation in time (`RequestInv`); theorems
  `AccessIsBounded`, `OutcomesAreFinal`, `BreakGlassTypeCorrect`.
  `BoundedKeyCache`: `EvictableBounded` rests on counting the queued keys when a thread
  finds the map small enough or the queue empty; `CapHolds` on `QuietInv`, by which every
  entry is queued or in the hands of a thread that will push or drop it;
  `EveryEvictionCounted` on the equation between insertions, evictions, removals and
  the size of the map; `CacheIsSound` joins the parts of `CacheSound`.
* **ServiceParts_proofs.** Four pairs of components, each pair with one specification
  in `ServiceParts` and one theorem.
  `RedisStaysSound`. `CachedInv`: an entry of the cache is the stored state, or it
  expires before the suspicion against its key; a call about to change the store has
  emptied the cache or left it so, overlapping calls on a key know of one another, and
  what a call not overlapped is about to fill in is what the store holds. `KexStoreInv`: while no calls overlapped, the stored
  history is the suffix of the messages taken that is neither too old nor beyond the
  history's size, and so is the copy in the hands of the one call that will save it; and
  what a call computed of a session's time, at the reading it had of the clock, ends less
  than a second past that time (`CallsInTime`), overlap or not.
  `VersionsStaySound`. `Sm9Inv`: the call that holds the managers' lock has the newest
  version of its line, which is no key's yet; where no call has it, the version has its
  key or was given up. `SecretInv`: in the order of the list the numbers count down from the last
  one drawn.
  `SecondFactorStaysSound`. `ManagerInv`: the wrong codes looked at are covered by the
  count in the database, the requests past the lock and the writes that were lost; an
  accepted backup code is gone from the stored list and from every list about to be
  written. `CodesInv`: each wrong code past the limit costs a lock-out, so that after
  `n` of them at least `n` lock-outs have passed; the steps in which a TOTP code is
  valid follow from the division of the clock by the step.
  `CountersStaySound`. `LimitInv`: a request is counted before it is let through, and
  those let through in the window, together with those between the two calls of the
  sliding limiter, have room in its two counts. `AnomalyInv`: a user's sum covers every
  access recorded since it was cleared, at most the limit of them found it within the
  limit, and a failed login that raised no alert is remembered as long as the window.
* **Platform_proofs.** Four components, and `KeyBackup`, `SecureMemory` and
  `Randomness` together.
  `TpmStaysSound` from `TpmInv`: the handle and the material of a key belong
  together for good, in NV storage, in the copies that calls work on and in ciphertexts;
  a destruction proof names a handle that is gone, and no two name the same.
  `KexStaysSound` from `KexInv`: the history of a session is the last part of the
  messages it acted on, and two equal messages among these are a history apart
  (`RecordedApart`, `HistoriesHold`); a secret on either side goes with the messages that
  must have gone before it (`SidesSound`, `NetSound`).
  `StartupStaysSound` from `GatesInv`, by which what is built so far has passed the gates
  of its step, and `Sm9KeyInv`, by which the stored SM9 key is sealed under the one KEK
  that servers have used so far, and a key made in vain means that there was none.
  `DeliveryStaysSound` from `DeliveryInv`. `Conserved` is not inductive: that places are
  exclusive and each holds an event once (`OnePlace`, `OnceEach`) needs that no two calls
  have the same entry in hand and that every event in sight has been numbered
  (`EventsKnown`), and that none is missing is `Somewhere`; `Numbered` needs the same of
  entries still in hand and of the number about to be given (`NumbersTell`). The two
  clauses on the buffer and on the authority's rounds are inductive beside it.
  `MaterialStaysSound` from `MaterialInv`, which has three parts. `BackupInv`: while no two
  servers created the master key at once, the one saved master key is that of every server
  whose key is saved and of every file acknowledged under it (`OneMasterKey`).
  `MemoryInv`: the pages of a live map are locked from the first to the last (`Covered`),
  and a locked page of the heap is explained by a slice that holds it. `RngInv`: states only grow,
  and a block is drawn from the entropy it names; of two generators the calls that may
  share a block, with the countdown while their entropy is still the same, are
  no more than the interval (`Parts`).

Attempts at a proof changed the models in four places. `Startup` let a replica keep the
KEK of its first start after the deployment had changed: `Sm9KeyInv` was not inductive,
and the model was wrong. `admitted` (`RateLimits`), `recentFailures` (`Anomaly`) and
`query` (`AuditDelivery`) were sequences of which only the members matter; they are
sets now, as counting in a sequence is an induction over data. Where an argument needs
a first or a least element, it is taken by the well-foundedness of the natural numbers
(`WFMin`), which asks for no induction theorem.

Only model-checked, and why.

* `PreloadCompletes` and `ShutdownCompletes`: liveness under fairness, and ENABLED.
* `HashChainMatches` and `OrderKept` (`WormAuditLog`): they flatten, sort and filter the
  files with folds, so that any step needs an induction over data.
* `MatchersSound`: `evaluate_condition` of `PolicyConditions` is RECURSIVE, and the globs
  are compared with a reference definition over all texts. `Webhooks`, the other half,
  has no proof of its own.
* `ShamirSound`: that interpolation inverts the evaluation of a polynomial over a
  prime field (`Shamir`) is an induction over its degree.

## 5. Bounds

Every bound is a constant named `Max...` or `Last...` or a finite set in a cfg, and
bounds how often something happens, never what may happen in between. They are
chosen so that each hazard occurs: two callers suffice for every race of two
critical sections (the cache has three, to let a removal meet two insertions); one
failure and one restart can fall at every step; the counts of keys, versions and
entries allow a second rotation after a failed one; every limit of the code (an
attempt count, a window, a history, a time to live, a threshold, a prime field) is
scaled down to two or three so that it is reached and passed. Callers, and ids
where nothing orders them, are symmetric; runs with liveness use no symmetry.

## 6. Disagreements

Besides the four runs that expect a violation, modelling met these differences
between the code and what it or its documentation says. The models follow the
code; where a property depends on it, its comment says so.

* *Approval and break-glass.* For a Manager-level request the engine looks for a
  vote whose level equals Manager, so that an administrator's vote is counted and
  never completes it. A copy kept from before a decision is taken by `restore_request`
  after a restart. The second approver's confirmation activates emergency access
  although the first never confirmed.
* *Life of a key.* `F1-key-lifecycle.md:26,30-35,42` and the wiki
  (`software-keystore.md:57,68,74`) say that a soft-deleted key is recoverable in a grace
  period; no operation recovers one and there is no grace period (`DeletionFinal`). The
  wiki lets only a soft-deleted key be destroyed ("Must soft delete first") and then through Obsolete; `destroy_key` asks for no
  status, and no key becomes Obsolete in memory.
* *PostgreSQL.* "The database is the source of truth; an entry that was evicted (or never
  cached) simply gets reloaded" (`postgres.rs:1142-1144`), but the reading of rows names
  seven of the twelve specs (`repository.rs:39-48`): P-384, Ed448, SM3-HMAC and both of
  SM9, written under their own names (`repository.rs:191`), come back as AES-256-GCM after
  an eviction or a restart. `ReloadFaithful` names the exception, and the run has a P-384
  key that meets it.
* *Start-up.* The TPM backend is honoured only when Redis is connected. The comment
  at `config.rs:284` names `KMS_ALLOW_IN_MEMORY`, which no code reads. The SM9 master
  key uses `KMS_KEK` only: with `KMS_KEK_FILE` every start makes a new one; any
  load error overwrites the stored one, and two replicas starting at once each
  make one. `KMS_DEV_MODE` masks an unusable KEK by a random one. The REST
  fail-fast ends its task, not the process; the rustls REST task ends without
  waiting for the drain; the gRPC listener with mTLS takes no signal.
* *Audit.* `require_tsa` is ignored when the logger cannot be created. The server
  always signs with an ephemeral key, and `initial_sequence` is ignored. The
  timestamped logger never sends to Kafka. Buffers are not flushed at shutdown and
  `flush_interval` is unused. `cleanup_old_files` says "after successful S3
  archival" and removes by age alone; `verify_archive` only downloads;
  `verify_timestamp` ignores a digest that does not match.
* *Redis.* Rate limiting is off without a word when Redis is down at start-up. The
  "sliding" windows begin anew with every fixed window. The cached key store does
  not forward the SM2 key exchange methods, and reports a creation or rotation that
  happened as failed when its last write to Redis fails; under a late reader the
  cache is not "consistent".
* *SM2 key exchange.* Message 3 of the byte interface carries no confirmation, so
  that a responder never completes over bytes; the history of ten is flushed by
  ten junk messages; `create_session` in Redis overwrites a session, and a session
  rewritten there lives up to a second (and the delay of its last write) longer than
  the 300 seconds of `SESSION_TTL_SECS`.
* *TPM.* Signing ignores the registers a key is bound to; Ed25519 signing panics;
  status and tenant are never asked; SM4 keys cannot encrypt.
* *Versions.* The SM9 adapter says that key material "is persisted via the KEK
  store", but the result of the encryption is discarded; keys of one tenant and
  type share one line of versions. Secret versions "increment on rotation" but
  begin at 1 again after an expiry and repeat after a rollback; `keep_versions = 0`
  drops the new secret; a failed draw leaves no version in use.
* *Backup and Shamir.* `retention_count` is unused, and the clean-up removes a key's
  only backup after `retention_days`. `reconstruct` without metadata gives a wrong
  secret as a success; `verify_share` accepts any value below the prime; random
  coefficients are never 0.
* *Policies.* A glob with a leading `*` misses a match near the beginning of the text
  and panics on a text shorter than its literal; `a*b` takes the first `b` only.
  Expiry uses the system clock, time ranges the trusted one.
* *Second factor, anomalies, memory, webhooks.* `BackupCodeGenerator::load` expects
  hashes "as stored during generation", while `generate` returns plain codes.
  "Operations per minute" is a sum for ever. `MLOCK_FAILURE_COUNTER` is said to count
  the failures of `LockedMemory`, which it does not; locks of pages do not nest, so
  that the drop of one `LockedMemory` unlocks the others of its page. The webhook's
  back-off `2u64.pow(attempt)` overflows from 64 retries on.

## 7. What is not modelled

`PROJECT.json` lists every component with what is left out and why. Left out for
good: cryptographic arithmetic (hashes and ciphers are ideal; Shamir's field is
modelled over a small prime), encodings (the DER of the timestamp protocol is
modelled as far as its positions matter), transports and their accept loops, the
drivers of HSM and TPM devices (`real.rs` answers NotImplemented), the clients
(command line, SDKs, operator, Terraform provider), metrics and health reports.
Methods that only pass a call on (most of `RedisCachedKeystore`, the getters) have
no action of their own. The keystore's limiters, `RotationService`, the SM9
adapter, `SecretRotationManager`, `ArchiveManager`, `WebhookManager`, the Redis
session manager, Shamir sharing, `BackupCodeGenerator`, `AnomalyDetector` and `GmRng`
outside its self test have no caller in the server: their models state what they
promise to a caller. `CacheManager` of the API has none either and is not modelled,
nor are `migrate_plaintext_secrets` of MFA and `startup_verify_chain`, whose verdict
is only logged.
