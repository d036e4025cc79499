-------------------------- MODULE PostgresKeystore --------------------------
(***************************************************************************)
(* The production backend of the key store,                                *)
(* crates/kms-keystore/src/postgres.rs over repository.rs: rows in         *)
(* PostgreSQL, a cache of decrypted entries in memory.                     *)
(*                                                                         *)
(* Every database call is an await, so an operation is a sequence of steps *)
(* between which other callers, the preload task and a restart may come.   *)
(* A call may fail, and a write that is reported as failed may have taken  *)
(* effect.  The cache is BoundedKeyCache seen from outside: an insertion,  *)
(* a change in place, a removal, and an entry that goes at any time.       *)
(*                                                                         *)
(* Each key id draws its own material, so the material is named by the id  *)
(* it was drawn for; the KEK envelope binds the two (kek_wrap_aad).        *)
(***************************************************************************)
EXTENDS Integers, FiniteSets

CONSTANTS
    Tenants,
    Specs,         \* the KeySpec values callers ask for
    Clients,       \* concurrent callers
    UseOps,        \* the operations on material that callers run
    MaxKeys,       \* bound: key ids drawn
    MaxCalls,      \* bound: calls of an operation on an existing key
    MaxFailures,   \* bound: database calls that fail
    MaxRestarts,   \* bound: restarts of the server
    Destruction,   \* whether callers destroy keys
    PreloadLimit   \* rows the preload lists (100 in the code)

\* The operations that read material, by what they ask of the status.
ActiveOps == {"encrypt", "sign", "export_key_material"}
AnyOps == {"verify", "get_key_material", "get_key_material_version", "derive_shared_secret"}

KeySpec ==
    {"Aes256Gcm", "Rsa4096", "EcdsaP256", "EcdsaP384", "Ed25519", "Ed448", "HmacSha256", "Sm3Hmac",
     "Sm2", "Sm4", "Sm9Signing", "Sm9Encryption"}

ASSUME ConstantsAssumption ==
    /\ Specs \subseteq KeySpec
    /\ UseOps \subseteq ActiveOps \cup AnyOps \cup {"decrypt"}
    /\ {MaxKeys, MaxCalls, MaxFailures, MaxRestarts, PreloadLimit} \subseteq Nat
    /\ Destruction \in BOOLEAN

Ids == 1..MaxKeys
None == 0    \* the NULL of encrypted_material, and no id

VARIABLES
    db,        \* the table keys: id -> row
    archive,   \* the table key_versions: <<id, version>> -> material
    cache,     \* id -> entry
    pc,        \* client -> the call it is in
    preload,   \* [at, todo]: the background task and the metas it has listed
    ready,     \* keys_ready
    drawn,     \* ids drawn so far
    created,   \* id -> what the key was created as (history)
    acked,     \* ids whose creation returned Ok (history)
    rotations, \* <<old, new>> of the rotations that returned Ok (history)
    gone,      \* ids whose removal returned Ok, by the kind of removal; of the
               \* deletions, the ones no load of the key overlapped (history)
    out,       \* the last answer that used material (history)
    spent      \* [calls, failures, restarts]: the bounded counters

dbVars   == <<db, archive>>
hist     == <<drawn, created, acked, rotations, gone, out>>
vars     == <<db, archive, cache, pc, preload, ready, hist, spent>>

-----------------------------------------------------------------------------
(* Data.                                                                   *)

KeyStatus == {"Active", "PendingDeletion", "Obsolete", "Destroyed"}
can_decrypt(status) == status \in {"Active", "PendingDeletion", "Obsolete"}
can_rotate(status)  == status \in {"Active", "Obsolete"}

\* Specs generate_key_material has a length for.
Generatable(spec) == spec \notin {"Sm9Signing", "Sm9Encryption", "Rsa4096"}

\* Specs validate_key_material has a rule for.
Importable(spec) == spec \notin {"Sm9Signing", "Sm9Encryption"}

Meta  == [tenant : Tenants, spec : Specs \cup {"Aes256Gcm"}, status : KeyStatus, version : Nat]
Entry == [meta : Meta, material : Ids]
Row   == [meta : Meta, material : Ids \cup {None}, deleted : BOOLEAN]

NewMeta(t, s, v) == [tenant |-> t, spec |-> s, status |-> "Active", version |-> v]
NewEntry(m, i) == [meta |-> m, material |-> i]

Put(f, k, v) == [x \in DOMAIN f \cup {k} |-> IF x = k THEN v ELSE f[x]]
Drop(f, k)   == [x \in DOMAIN f \ {k} |-> f[x]]

\* The spec is written as its Debug name and read back through a table that
\* lacks some names: those come back as AES-256-GCM.
ReadableSpecs_NoSm4 ==    \* mutant: one arm of the match is missing
    {"Aes256Gcm", "Ed25519", "EcdsaP256", "Sm2", "HmacSha256", "Rsa4096"}
ReadableSpecs ==
    {"Aes256Gcm", "Ed25519", "EcdsaP256", "Sm4", "Sm2", "HmacSha256", "Rsa4096"}
FromEntity(m) ==
    [m EXCEPT !.spec = IF m.spec \in ReadableSpecs THEN m.spec ELSE "Aes256Gcm"]

-----------------------------------------------------------------------------
(* The repository.  Reads see the rows that are not soft-deleted.          *)

Live(i) == i \in DOMAIN db /\ ~db[i].deleted

find_by_id(i) == IF Live(i) THEN {FromEntity(db[i].meta)} ELSE {}
find_encrypted_material(i) == IF Live(i) THEN {db[i].material} \ {None} ELSE {}

\* The newest PreloadLimit rows (a later id was created later).
list_all_tenants ==
    {i \in DOMAIN db : Live(i) /\ Cardinality({j \in DOMAIN db : Live(j) /\ j > i}) < PreloadLimit}

insert(i, m) ==
    db' = Put(db, i, [meta |-> m, material |-> None, deleted |-> FALSE])
update_encrypted_material(i, material) ==
    db' = IF Live(i) THEN [db EXCEPT ![i].material = material] ELSE db
update_status(i, status) ==
    db' = IF Live(i) THEN [db EXCEPT ![i].meta.status = status] ELSE db
soft_delete(i) ==
    db' = IF Live(i) THEN [db EXCEPT ![i].deleted = TRUE] ELSE db

\* UNIQUE (key_id, version).
CanInsertVersion_Upsert(i, v) == TRUE    \* mutant: on conflict do update
CanInsertVersion(i, v) == <<i, v>> \notin DOMAIN archive
insert_version(i, v, material) == archive' = Put(archive, <<i, v>>, material)

-----------------------------------------------------------------------------
(* Calls.                                                                  *)

Idle(c) == c \notin DOMAIN pc
At(c, at) == c \in DOMAIN pc /\ pc[c].at = at
Begin(c, call) == pc' = Put(pc, c, call)
Goto(c, at) == pc' = [pc EXCEPT ![c].at = at]
Return(c) == pc' = Drop(pc, c)

\* A database call returned an error: the operation ends there.
MayFail == spent.failures < MaxFailures
Fail(c) ==
    /\ MayFail
    /\ spent' = [spent EXCEPT !.failures = @ + 1]
    /\ Return(c)
    /\ UNCHANGED <<cache, preload, ready, hist>>

\* A write of the database at step `at' of call c: it takes effect and the
\* call goes on, or an error is reported, with or without the effect.
Write(c, at, effect, next) ==
    /\ At(c, at)
    /\ \/ /\ effect
          /\ Goto(c, next)
          /\ UNCHANGED <<cache, preload, ready, hist, spent>>
       \/ Fail(c) /\ (effect \/ UNCHANGED dbVars)

Init ==
    /\ db = [i \in {} |-> 0]
    /\ archive = [i \in {} |-> 0]
    /\ cache = [i \in {} |-> 0]
    /\ pc = [c \in {} |-> 0]
    /\ preload = [at |-> "list", todo |-> {}]
    /\ ready = FALSE
    /\ drawn = 0
    /\ created = [i \in {} |-> 0]
    /\ acked = {}
    /\ rotations = {}
    /\ gone = [deleted |-> {}, destroyed |-> {}]
    /\ out = {}
    /\ spent = [calls |-> 0, failures |-> 0, restarts |-> 0]

\* An id (and material) never drawn before.
Draw(i, m) ==
    /\ drawn < MaxKeys
    /\ i = drawn + 1
    /\ drawn' = i
    /\ created' = Put(created, i, m)

-----------------------------------------------------------------------------
(* generate_key and import_key_material: the entry is cached, then the row *)
(* is inserted, then its material is set.                                  *)

create(c, i, t, s, op) ==
    /\ Idle(c)
    /\ IF op = "generate" THEN Generatable(s) ELSE Importable(s)
    /\ Draw(i, NewMeta(t, s, 1))
    /\ cache' = Put(cache, i, NewEntry(NewMeta(t, s, 1), i))
    /\ Begin(c, [op |-> "create", at |-> "c_insert", key |-> i, tenant |-> t, late |-> {},
                 meta |-> NewMeta(t, s, 1), material |-> i, new |-> i])
    /\ UNCHANGED <<db, archive, preload, ready, acked, rotations, gone, out, spent>>

create_insert(c) ==
    Write(c, "c_insert", insert(pc[c].key, pc[c].meta) /\ UNCHANGED archive, "c_material")

create_material(c) ==
    Write(c, "c_material",
          update_encrypted_material(pc[c].key, pc[c].material) /\ UNCHANGED archive, "c_ok")

create_ok(c) ==
    /\ At(c, "c_ok")
    /\ acked' = acked \cup {pc[c].key}
    /\ Return(c)
    /\ UNCHANGED <<db, archive, cache, preload, ready, drawn, created, rotations, gone, out, spent>>

-----------------------------------------------------------------------------
(* entry_for, the first step of every operation on an existing key.        *)

TenantOk_Any(m, t) == TRUE    \* mutant: any tenant
TenantOk(m, t) == m.tenant = t

\* The removals of the key that have returned when the call begins.
Removals == {"deleted", "destroyed"}
Late(i) == {w \in Removals : i \in gone[w]}

\* Callers know the ids of rows (a creation returned them, or list_keys did).
entry_for(c, op, i, t) ==
    /\ Idle(c)
    /\ i \in DOMAIN db
    /\ spent.calls < MaxCalls
    /\ spent' = [spent EXCEPT !.calls = @ + 1]
    /\ LET call == [op |-> op, at |-> "find", key |-> i, tenant |-> t, late |-> Late(i),
                    meta |-> NewMeta(t, "Aes256Gcm", 0), material |-> None, new |-> None]
       IN  \/ i \notin DOMAIN cache /\ Begin(c, call)
           \/ /\ i \in DOMAIN cache
              /\ IF TenantOk(cache[i].meta, t)
                 THEN Begin(c, [call EXCEPT !.at = "resolved", !.meta = cache[i].meta,
                                            !.material = cache[i].material])
                 ELSE UNCHANGED pc
    /\ UNCHANGED <<db, archive, cache, preload, ready, hist>>

\* The cache misses: the metadata, then the material, are read from the row.
load_meta(c) ==
    /\ At(c, "find")
    /\ \/ \E m \in find_by_id(pc[c].key) :
             /\ pc' = [pc EXCEPT ![c].at = "load", ![c].meta = m]
             /\ UNCHANGED <<cache, preload, ready, hist, spent>>
       \/ /\ find_by_id(pc[c].key) = {}
          /\ Return(c)
          /\ UNCHANGED <<cache, preload, ready, hist, spent>>
       \/ Fail(c)
    /\ UNCHANGED dbVars

load_material(c) ==
    /\ At(c, "load")
    /\ \/ \E material \in find_encrypted_material(pc[c].key) :
             /\ TenantOk(pc[c].meta, pc[c].tenant)
             /\ cache' = Put(cache, pc[c].key, NewEntry(pc[c].meta, material))
             /\ pc' = [pc EXCEPT ![c].at = "resolved", ![c].material = material]
             /\ UNCHANGED <<preload, ready, hist, spent>>
       \/ /\ \/ find_encrypted_material(pc[c].key) = {}
             \/ ~TenantOk(pc[c].meta, pc[c].tenant)
          /\ Return(c)
          /\ UNCHANGED <<cache, preload, ready, hist, spent>>
       \/ Fail(c)
    /\ UNCHANGED dbVars

\* The operations that only use the material.  A ciphertext of the entry's
\* own version needs no lookup in key_versions, and any other version of a
\* key id was never current (a rotation makes a new id).
Allowed(op, status) ==
    \/ op \in ActiveOps /\ status = "Active"
    \/ op = "decrypt" /\ can_decrypt(status)
    \/ op \in AnyOps

use(c) ==
    /\ At(c, "resolved")
    /\ pc[c].op \in UseOps
    /\ out' = IF Allowed(pc[c].op, pc[c].meta.status)
              THEN {[op |-> pc[c].op, by |-> pc[c].tenant, key |-> pc[c].key,
                     material |-> pc[c].material, late |-> pc[c].late]}
              ELSE out
    /\ Return(c)
    /\ UNCHANGED <<db, archive, cache, preload, ready, drawn, created, acked, rotations, gone, spent>>

\* get_key_metadata and list_keys read and change nothing.

-----------------------------------------------------------------------------
(* rotate_key: a new key takes over.  The database comes first.            *)

rotate_key(c, i) ==
    /\ At(c, "resolved") /\ pc[c].op = "rotate"
    /\ IF can_rotate(pc[c].meta.status) /\ Generatable(pc[c].meta.spec)
       THEN /\ Draw(i, NewMeta(pc[c].meta.tenant, pc[c].meta.spec, pc[c].meta.version + 1))
            /\ pc' = [pc EXCEPT ![c].at = "r_insert", ![c].new = i]
       ELSE i = None /\ Return(c) /\ UNCHANGED <<drawn, created>>
    /\ UNCHANGED <<db, archive, cache, preload, ready, acked, rotations, gone, out, spent>>

Successor(c) == NewMeta(pc[c].meta.tenant, pc[c].meta.spec, pc[c].meta.version + 1)

rotate_insert(c) ==
    Write(c, "r_insert", insert(pc[c].new, Successor(c)) /\ UNCHANGED archive, "r_material")

rotate_material_Lost(c) ==    \* mutant: the new material stays in memory
    Write(c, "r_material", UNCHANGED dbVars, "r_status")
rotate_material(c) ==
    Write(c, "r_material",
          update_encrypted_material(pc[c].new, pc[c].new) /\ UNCHANGED archive, "r_status")

rotate_status(c) ==
    Write(c, "r_status", update_status(pc[c].key, "Obsolete") /\ UNCHANGED archive, "r_version")

\* The unique constraint refuses a second rotation of the same id.
rotate_version(c) ==
    \/ /\ At(c, "r_version") /\ CanInsertVersion(pc[c].key, pc[c].meta.version)
       /\ Write(c, "r_version",
                insert_version(pc[c].key, pc[c].meta.version, pc[c].material) /\ UNCHANGED db,
                "r_rotated_at")
    \/ /\ At(c, "r_version") /\ ~CanInsertVersion(pc[c].key, pc[c].meta.version)
       /\ Return(c)
       /\ UNCHANGED <<db, archive, cache, preload, ready, hist, spent>>

update_version_rotated_at(c) ==
    Write(c, "r_rotated_at", UNCHANGED dbVars, "r_cache")

\* The cached old entry, if there is one, is marked; the new one is cached.
Marked_Not(i, status) == cache    \* mutant: the cached entry keeps its status
Marked(i, status) ==
    IF i \in DOMAIN cache THEN [cache EXCEPT ![i].meta.status = status] ELSE cache

rotate_cache(c) ==
    /\ At(c, "r_cache")
    /\ cache' = Put(Marked(pc[c].key, "Obsolete"), pc[c].new,
                    NewEntry(Successor(c), pc[c].new))
    /\ acked' = acked \cup {pc[c].new}
    /\ rotations' = rotations \cup {<<pc[c].key, pc[c].new>>}
    /\ Return(c)
    /\ UNCHANGED <<db, archive, preload, ready, drawn, created, gone, out, spent>>

-----------------------------------------------------------------------------
(* delete_key and destroy_key.                                             *)

delete_key(c) ==
    /\ At(c, "resolved") /\ pc[c].op = "delete"
    /\ Write(c, "resolved", soft_delete(pc[c].key) /\ UNCHANGED archive, "d_cache")

\* Another call, or the preload, has read the row of i as it was and has
\* still to cache it, or i is the successor that a rotation has still to cache.
Loading(i) ==
    \/ \E c \in DOMAIN pc : \/ pc[c].key = i /\ pc[c].at = "load"
                            \/ pc[c].new = i /\ pc[c].op = "rotate"
    \/ \E x \in preload.todo : x[1] = i

delete_cache(c) ==
    /\ At(c, "d_cache")
    /\ cache' = Marked(pc[c].key, "PendingDeletion")
    /\ gone' = [gone EXCEPT !.deleted = IF Loading(pc[c].key) THEN @ ELSE @ \cup {pc[c].key}]
    /\ Return(c)
    /\ UNCHANGED <<db, archive, preload, ready, drawn, created, acked, rotations, out, spent>>

\* Only the cached entry goes; a key that is not cached is reported missing.
destroy_key(i) ==
    /\ Destruction
    /\ i \in DOMAIN cache /\ i \in DOMAIN db
    /\ spent.calls < MaxCalls
    /\ spent' = [spent EXCEPT !.calls = @ + 1]
    /\ cache' = Drop(cache, i)
    /\ gone' = [gone EXCEPT !.destroyed = @ \cup {i}]
    /\ UNCHANGED <<db, archive, pc, preload, ready, drawn, created, acked, rotations, out>>

-----------------------------------------------------------------------------
(* The preload task, the eviction of entries, and restarts.                *)

\* The metas listed are the ones that are cached later, whatever happens to
\* their rows in between.  An error of this call ends the task.
preload_list ==
    /\ preload.at = "list"
    /\ \/ /\ preload' = [at |-> "loading",
                         todo |-> {<<i, FromEntity(db[i].meta), None>> : i \in list_all_tenants}]
          /\ UNCHANGED spent
       \/ /\ MayFail
          /\ preload' = [preload EXCEPT !.at = "failed"]
          /\ spent' = [spent EXCEPT !.failures = @ + 1]
    /\ UNCHANGED <<db, archive, cache, pc, ready, hist>>

\* The newest meta still to be read.
NextKey(x) == x \in preload.todo /\ \A y \in preload.todo : y[1] <= x[1]

\* A row without material, a failing read and a failing decryption skip it.
preload_skip_Abort(x) == [preload EXCEPT !.at = "failed"]    \* mutant: the error is propagated
preload_skip(x) == [preload EXCEPT !.todo = @ \ {x}]

preload_read(x) ==
    /\ preload.at = "loading" /\ NextKey(x) /\ x[3] = None
    /\ \/ \E material \in find_encrypted_material(x[1]) :
             /\ preload' = [preload EXCEPT !.todo = (@ \ {x}) \cup {<<x[1], x[2], material>>}]
             /\ UNCHANGED spent
       \/ find_encrypted_material(x[1]) = {} /\ preload' = preload_skip(x) /\ UNCHANGED spent
       \/ /\ MayFail
          /\ preload' = preload_skip(x)
          /\ spent' = [spent EXCEPT !.failures = @ + 1]
    /\ UNCHANGED <<db, archive, cache, pc, ready, hist>>

preload_insert(x) ==
    /\ preload.at = "loading" /\ NextKey(x) /\ x[3] # None
    /\ cache' = Put(cache, x[1], NewEntry(x[2], x[3]))
    /\ preload' = [preload EXCEPT !.todo = @ \ {x}]
    /\ UNCHANGED <<db, archive, pc, ready, hist, spent>>

preload_done ==
    /\ preload.at = "loading" /\ preload.todo = {}
    /\ preload' = [at |-> "done", todo |-> {}]
    /\ ready' = TRUE
    /\ UNCHANGED <<db, archive, cache, pc, hist, spent>>

Preload ==
    \/ preload_list
    \/ \E x \in preload.todo : preload_read(x) \/ preload_insert(x)
    \/ preload_done

\* The capacity of the cache (BoundedKeyCache) takes an entry.
Evict(i) ==
    /\ i \in DOMAIN cache
    /\ cache' = Drop(cache, i)
    /\ UNCHANGED <<db, archive, pc, preload, ready, hist, spent>>

\* The process ends, wherever its calls are, and a new one starts.
Restart ==
    /\ spent.restarts < MaxRestarts
    /\ spent' = [spent EXCEPT !.restarts = @ + 1]
    /\ cache' = [i \in {} |-> 0]
    /\ pc' = [c \in {} |-> 0]
    /\ preload' = [at |-> "list", todo |-> {}]
    /\ ready' = FALSE
    /\ UNCHANGED <<db, archive, hist>>

Next ==
    \/ \E c \in Clients :
          \/ \E i \in Ids, t \in Tenants, s \in Specs, op \in {"generate", "import"} :
                create(c, i, t, s, op)
          \/ create_insert(c) \/ create_material(c) \/ create_ok(c)
          \/ \E op \in UseOps \cup {"rotate", "delete"}, i \in Ids, t \in Tenants :
                entry_for(c, op, i, t)
          \/ load_meta(c) \/ load_material(c) \/ use(c)
          \/ \E i \in Ids \cup {None} : rotate_key(c, i)
          \/ rotate_insert(c) \/ rotate_material(c) \/ rotate_status(c)
          \/ rotate_version(c) \/ update_version_rotated_at(c) \/ rotate_cache(c)
          \/ delete_key(c) \/ delete_cache(c)
    \/ \E i \in Ids : destroy_key(i) \/ Evict(i)
    \/ Preload
    \/ Restart

Spec == Init /\ [][Next]_vars

\* The runtime polls the preload task and its database calls return.
FairSpec == Spec /\ WF_vars(Preload)

-----------------------------------------------------------------------------
(* Properties.                                                             *)

\* The shape of the tables, of the cache and of the calls in flight.
TypeOK ==
    /\ DOMAIN db \subseteq 1..drawn /\ \A i \in DOMAIN db : db[i] \in Row
    /\ DOMAIN archive \subseteq Ids \X Nat /\ \A x \in DOMAIN archive : archive[x] \in Ids
    /\ DOMAIN cache \subseteq 1..drawn /\ \A i \in DOMAIN cache : cache[i] \in Entry
    /\ DOMAIN pc \subseteq Clients
    /\ \A c \in DOMAIN pc :
          /\ pc[c].key \in Ids /\ pc[c].tenant \in Tenants /\ pc[c].meta \in Meta
          /\ pc[c].material \in Ids \cup {None} /\ pc[c].new \in Ids \cup {None}
    /\ preload.at \in {"list", "loading", "failed", "done"}
    /\ preload.todo \subseteq Ids \X Meta \X (Ids \cup {None})
    /\ ready \in BOOLEAN
    /\ drawn \in 0..MaxKeys /\ DOMAIN created = 1..drawn

\* An answer is made with the material of a key of the caller's tenant,
\* whichever way the entry was resolved and whatever was cached meanwhile.
TenantIsolation ==
    \A o \in out : created[o.material].tenant = o.by /\ o.material = o.key

\* A creation, import or rotation that returned Ok is durable: the row holds
\* the key's material, so a restart or an eviction loses nothing, unless the
\* key has been soft-deleted since.
AcknowledgedDurable ==
    \A i \in acked : i \in DOMAIN db /\ (db[i].deleted \/ db[i].material = i)

\* A rotation that returned Ok left the old key archived and off duty in the
\* database, and no other rotation of that key returns Ok: callers never
\* hold two successors, though the status check and the writes are apart.
RotatedOnce ==
    /\ \A r, q \in rotations : r[1] = q[1] => r = q
    /\ \A r \in rotations :
          /\ archive[<<r[1], created[r[1]].version>>] = r[1]
          /\ db[r[1]].deleted \/ db[r[1]].meta.status = "Obsolete"

\* "The database is the source of truth; an entry that was evicted (or never
\* cached) simply gets reloaded from the database on the next access": what is
\* cached is what was created, with its own material, but for the status, and
\* but for a spec the reading of rows has no name for: of these five the row,
\* against that sentence, gives AES-256-GCM back.
UnnamedSpecs == {"EcdsaP384", "Ed448", "Sm3Hmac", "Sm9Signing", "Sm9Encryption"}
ReloadFaithful ==
    \A i \in DOMAIN cache :
        /\ cache[i].material = i
        /\ \/ [cache[i].meta EXCEPT !.status = "Active"] = created[i]
           \/ /\ created[i].spec \in UnnamedSpecs
              /\ [cache[i].meta EXCEPT !.status = "Active"] = [created[i] EXCEPT !.spec = "Aes256Gcm"]

\* A deletion takes effect: no operation that needs an Active key succeeds
\* if it begins after delete_key returned, unless some other call or the
\* preload had read the row, or a rotation had made it, before the deletion
\* and caches it after (then the entry is Active again until it is evicted).
DeletionEffective ==
    \A o \in out : o.op \in ActiveOps => "deleted" \notin o.late

\* "Permanently destroy a key (hard delete)": no answer to a call that
\* begins after destroy_key returned uses the key.
DestroyedNotUsed ==
    \A o \in out : "destroyed" \notin o.late

\* The server becomes ready once the preload has its list, whatever rows it
\* finds and whichever of them cannot be read, unless it is restarted.
PreloadCompletes ==
    preload.at = "loading" ~> (ready \/ preload.at = "list")

=============================================================================
