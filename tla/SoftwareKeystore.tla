-------------------------- MODULE SoftwareKeystore --------------------------
(***************************************************************************)
(* The in-memory backend of the key store,                                 *)
(* crates/kms-keystore/src/software/mod.rs.                                *)
(*                                                                         *)
(* Every operation on one key takes the lock of the key table twice:       *)
(* verify_tenant takes and drops it, then the operation takes it again and *)
(* looks the key up anew.  The model keeps the two critical sections apart *)
(* (Call, then the action of the operation), so that a rotation, a         *)
(* deletion or a destruction of another caller may fall between them.      *)
(*                                                                         *)
(* Key material is opaque: material drawn from the random generator is     *)
(* <<"gen", n>> with a number never drawn before, material a caller        *)
(* brought in is <<"imp", n>> (the same bytes may be imported twice), and  *)
(* the empty vector std::mem::take leaves behind is <<"empty", 0>>.        *)
(***************************************************************************)
EXTENDS Integers, Sequences, FiniteSets

CONSTANTS
    KeyIds,       \* the v4 UUIDs the run may draw
    Tenants,      \* tenant ids
    Specs,        \* the KeySpec values callers ask for
    Clients,      \* concurrent callers
    ImportIds,    \* the distinct materials callers may import
    MaxMaterial,  \* bound: materials drawn from the random generator
    MaxHistory,   \* bound: archived versions of one key
    MaxOutputs    \* bound: answers remembered in the history

\* The algorithms of KeySpec.
AllSpecs == {"Aes256Gcm", "HmacSha256", "Sm3Hmac", "Sm4", "Sm2", "Ed25519",
             "EcdsaP256", "EcdsaP384", "Ed448", "Rsa4096",
             "Sm9Signing", "Sm9Encryption"}

ASSUME ConstantsAssumption ==
    /\ Specs \subseteq AllSpecs
    /\ ImportIds \subseteq Nat
    /\ MaxMaterial \in Nat
    /\ MaxHistory \in Nat
    /\ MaxOutputs \in Nat

VARIABLES
    keys,     \* the key table: a function on the ids that have an entry
    used,     \* every id ever drawn (Uuid::new_v4 does not repeat one)
    fresh,    \* number of materials drawn from the generator
    calls,    \* client -> the request that has passed verify_tenant
    outputs,  \* everything handed back to callers (history)
    owner     \* id -> the tenant the key was created for (history)

vars == <<keys, used, fresh, calls, outputs, owner>>

-----------------------------------------------------------------------------
(* Data.                                                                   *)

Empty    == <<"empty", 0>>
Material == {"gen", "imp", "empty"} \X Nat

KeyStatus == {"Active", "PendingDeletion", "Obsolete", "Destroyed"}

can_use(status)     == status = "Active"
can_decrypt(status) == status \in {"Active", "PendingDeletion", "Obsolete"}
\* Mutant: a key in its grace period may be rotated.
can_rotate_Pending(status) ==
    status \in {"Active", "Obsolete", "PendingDeletion"}
can_rotate(status)  == status \in {"Active", "Obsolete"}

\* Specs the back end has a generator for (KeySpec::is_generatable and the
\* match of generate_key agree), and specs whose material may be imported.
is_generatable(spec) ==
    spec \in {"Aes256Gcm", "HmacSha256", "Sm3Hmac", "Sm4", "Sm2", "Ed25519"}
is_importable(spec) == spec \notin {"Sm9Signing", "Sm9Encryption"}

\* The match arms of encrypt and of sign.  The two AEADs bind the ciphertext
\* to (key id, tenant, version); SM2 encryption has no associated data.
EncryptSpecs == {"Aes256Gcm", "HmacSha256", "Sm4", "Sm2"}
AeadSpecs    == {"Aes256Gcm", "HmacSha256", "Sm4"}
SignSpecs    == {"Ed25519", "Sm2"}

\* One archived version: (version, material).
Archived == [version : Nat, material : Material]

KeyEntry == [tenant : Tenants, spec : Specs, status : KeyStatus,
             version : Nat, material : Material, versions : Seq(Archived)]

\* Version numbers a caller may ask for; 0 stands for the current one.
AskedVersions == 0..(MaxHistory + 1)

Ops == {"encrypt", "sign", "export", "get_version", "rotate", "delete"}

Request == [op : Ops, key : KeyIds, tenant : Tenants]

\* What leaves the key store: a ciphertext or signature (with the material
\* that made it) or raw material; `by' is the tenant the caller acts in,
\* `tenant' and `spec' what the entry said when the output was made.
Output == [kind : {"cipher", "sig", "material"}, key : KeyIds, by : Tenants,
           tenant : Tenants, spec : Specs, version : Nat, material : Material]

Put(f, k, e) == [x \in DOMAIN f \cup {k} |-> IF x = k THEN e ELSE f[x]]
Drop(f, k)   == [x \in DOMAIN f \ {k} |-> f[x]]

\* versions.iter().find(|(v, _)| *v == version): the first match wins.
HasVersion(vs, v) == \E i \in DOMAIN vs : vs[i].version = v
IsFirst(vs, v, i) ==
    vs[i].version = v /\ \A j \in DOMAIN vs : vs[j].version = v => i <= j
FirstOf(vs, v) == CHOOSE i \in DOMAIN vs : IsFirst(vs, v, i)
Find(vs, v) == vs[FirstOf(vs, v)].material

\* The material decrypt and get_key_material_version use for a version.
Selectable(e, v) == v = e.version \/ HasVersion(e.versions, v)
Selected(e, v) == IF v = e.version THEN e.material ELSE Find(e.versions, v)

-----------------------------------------------------------------------------

Init ==
    /\ keys = [k \in {} |-> 0]
    /\ used = {}
    /\ fresh = 0
    /\ calls = [c \in {} |-> 0]
    /\ outputs = {}
    /\ owner = [k \in {} |-> 0]

NewEntry(t, s, m) ==
    [tenant |-> t, spec |-> s, status |-> "Active",
     version |-> 1, material |-> m, versions |-> <<>>]

Insert(k, t, s, m) ==
    /\ k \notin used
    /\ keys' = Put(keys, k, NewEntry(t, s, m))
    /\ used' = used \cup {k}
    /\ owner' = Put(owner, k, t)

generate_key(k, t, s) ==
    /\ is_generatable(s)
    /\ fresh < MaxMaterial
    /\ Insert(k, t, s, <<"gen", fresh>>)
    /\ fresh' = fresh + 1
    /\ UNCHANGED <<calls, outputs>>

import_key_material(k, t, s, n) ==
    /\ is_importable(s)
    /\ Insert(k, t, s, <<"imp", n>>)
    /\ UNCHANGED <<fresh, calls, outputs>>

\* The first critical section of an operation: verify_tenant.  A missing key
\* and a wrong tenant end the call with KeyNotFound and change nothing.
verify_tenant_AnyTenant(k, t) == k \in DOMAIN keys   \* mutant: key found only
verify_tenant(k, t) == k \in DOMAIN keys /\ keys[k].tenant = t

Call(c, op, k, t) ==
    /\ c \notin DOMAIN calls
    /\ verify_tenant(k, t)
    /\ calls' = Put(calls, c, [op |-> op, key |-> k, tenant |-> t])
    /\ UNCHANGED <<keys, used, fresh, outputs, owner>>

\* The second critical section finds the key again, under the lock.
Serving(c, op) ==
    /\ c \in DOMAIN calls
    /\ calls[c].op = op
    /\ calls[c].key \in DOMAIN keys

Return(c) == calls' = Drop(calls, c)

Emit(c, kind, version, material) ==
    LET k == calls[c].key IN
    /\ Cardinality(outputs) < MaxOutputs
    /\ outputs' = outputs \cup
         {[kind |-> kind, key |-> k, by |-> calls[c].tenant,
           tenant |-> keys[k].tenant, spec |-> keys[k].spec,
           version |-> version, material |-> material]}
    /\ Return(c)
    /\ UNCHANGED <<keys, used, fresh, owner>>

\* Every cipher and signer rejects an empty key.
CanEncrypt(e) ==
    can_use(e.status) /\ e.spec \in EncryptSpecs /\ e.material # Empty
CanSign(e) ==
    can_use(e.status) /\ e.spec \in SignSpecs /\ e.material # Empty

encrypt(c) ==
    /\ Serving(c, "encrypt")
    /\ LET e == keys[calls[c].key] IN
         /\ CanEncrypt(e)
         /\ Emit(c, "cipher", e.version, e.material)

sign(c) ==
    /\ Serving(c, "sign")
    /\ LET e == keys[calls[c].key] IN
         /\ CanSign(e)
         /\ Emit(c, "sig", e.version, e.material)

export_key_material(c) ==
    /\ Serving(c, "export")
    /\ LET e == keys[calls[c].key] IN
         /\ can_use(e.status)
         /\ Emit(c, "material", e.version, e.material)

\* No status check; version 0 stands for the current one.  get_key_material
\* is the case v = 0.
get_key_material_version(c, v) ==
    /\ Serving(c, "get_version")
    /\ LET e == keys[calls[c].key]
           w == IF v = 0 THEN e.version ELSE v IN
         /\ Selectable(e, w)
         /\ Emit(c, "material", w, Selected(e, w))

\* The material moves into the history before the new one is drawn.
Archive_LastOnly(e) ==    \* mutant: only the latest version is kept
    [e EXCEPT !.versions = <<[version |-> e.version, material |-> e.material]>>,
              !.material = Empty]
Archive(e) ==
    [e EXCEPT !.versions =
        Append(e.versions, [version |-> e.version, material |-> e.material]),
              !.material = Empty]

Renewed_SameVersion(e, m) ==    \* mutant: the version is not advanced
    [Archive(e) EXCEPT !.status = "Active", !.material = m]
Renewed_Skip(e, m) ==    \* mutant: the version is advanced twice
    [Archive(e) EXCEPT !.status = "Active", !.version = e.version + 2,
                       !.material = m]
Renewed(e, m) ==
    [Archive(e) EXCEPT !.status = "Active", !.version = e.version + 1,
                       !.material = m]

CanRotate(c) ==
    /\ Serving(c, "rotate")
    /\ can_rotate(keys[calls[c].key].status)
    /\ Len(keys[calls[c].key].versions) < MaxHistory

rotate_key(c) ==
    /\ CanRotate(c)
    /\ fresh < MaxMaterial
    /\ LET k == calls[c].key IN
         /\ is_generatable(keys[k].spec)
         /\ keys' = [keys EXCEPT ![k] = Renewed(@, <<"gen", fresh>>)]
    /\ fresh' = fresh + 1
    /\ Return(c)
    /\ UNCHANGED <<used, outputs, owner>>

\* The early returns of the match on the spec: no generator for it, or
\* generate_sm2_key failed.  The archived material is not put back.
rotate_key_rejected(c) ==
    /\ CanRotate(c)
    /\ LET k == calls[c].key IN
         /\ keys[k].spec = "Sm2" \/ ~is_generatable(keys[k].spec)
         /\ keys' = [keys EXCEPT ![k] = Archive(@)]
    /\ Return(c)
    /\ UNCHANGED <<used, fresh, outputs, owner>>

delete_key(c) ==
    /\ Serving(c, "delete")
    /\ keys' = [keys EXCEPT ![calls[c].key].status = "PendingDeletion"]
    /\ Return(c)
    /\ UNCHANGED <<used, fresh, outputs, owner>>

\* destroy_key and destroy_key_with_proof take no tenant and one lock.
destroy_key(k) ==
    /\ k \in DOMAIN keys
    /\ keys' = Drop(keys, k)
    /\ UNCHANGED <<used, fresh, calls, outputs, owner>>

\* The error returns of the second critical section.
Rejected(op, e) ==
    CASE op = "encrypt"     -> ~CanEncrypt(e)
      [] op = "sign"        -> ~CanSign(e)
      [] op = "export"      -> ~can_use(e.status)
      [] op = "rotate"      -> ~can_rotate(e.status)
      [] op = "get_version" -> \E v \in AskedVersions \ {0} : ~Selectable(e, v)
      [] op = "delete"      -> FALSE

Refuse(c) ==
    /\ c \in DOMAIN calls
    /\ calls[c].key \in DOMAIN keys =>
          Rejected(calls[c].op, keys[calls[c].key])
    /\ Return(c)
    /\ UNCHANGED <<keys, used, fresh, outputs, owner>>

Next ==
    \/ \E k \in KeyIds, t \in Tenants, s \in Specs :
          \/ generate_key(k, t, s)
          \/ \E n \in ImportIds : import_key_material(k, t, s, n)
    \/ \E c \in Clients, op \in Ops, k \in KeyIds, t \in Tenants :
          Call(c, op, k, t)
    \/ \E c \in Clients :
          \/ encrypt(c)
          \/ sign(c)
          \/ export_key_material(c)
          \/ \E v \in AskedVersions : get_key_material_version(c, v)
          \/ rotate_key(c)
          \/ rotate_key_rejected(c)
          \/ delete_key(c)
          \/ Refuse(c)
    \/ \E k \in KeyIds : destroy_key(k)

Spec == Init /\ [][Next]_vars

-----------------------------------------------------------------------------
(* Read-only operations, as what they answer.                              *)

\* decrypt(k, ct) on behalf of tenant t returns the plaintext of ct.
decrypt(k, t, ct) ==
    /\ verify_tenant(k, t)
    /\ LET e == keys[k] IN
         /\ can_decrypt(e.status)
         /\ e.spec \in EncryptSpecs
         /\ Selectable(e, ct.version)
         /\ Selected(e, ct.version) = ct.material
         /\ e.spec \in AeadSpecs =>
              ct.key = k /\ ct.tenant = e.tenant /\ ct.spec \in AeadSpecs
         /\ e.spec \notin AeadSpecs => ct.spec = e.spec

\* verify(k, sig): always the current material, whatever sig.version says.
verify(k, t, sig) ==
    /\ verify_tenant(k, t)
    /\ keys[k].spec \in SignSpecs /\ keys[k].spec = sig.spec
    /\ keys[k].material = sig.material
    /\ sig.material # Empty

-----------------------------------------------------------------------------
(* Properties.                                                             *)

\* The shape of the key table, of the requests in flight and of the history.
TypeOK ==
    /\ DOMAIN keys \subseteq used
    /\ used \subseteq KeyIds
    /\ \A k \in DOMAIN keys : keys[k] \in KeyEntry
    /\ fresh \in Nat
    /\ DOMAIN calls \subseteq Clients
    /\ \A c \in DOMAIN calls : calls[c] \in Request
    /\ outputs \subseteq Output
    /\ DOMAIN owner = used
    /\ \A k \in used : owner[k] \in Tenants

\* "Previous key material versions for decryption of historical ciphertexts"
\* (KeyEntry.versions): however rotations, rejected rotations and deletions of
\* other callers interleave, the owner can decrypt every ciphertext the key
\* ever made for as long as the key is in the table.  The one exception is
\* the current version of a key whose last rotation was rejected.
HistoryReadable ==
    \A o \in outputs :
        /\ o.kind = "cipher"
        /\ o.key \in DOMAIN keys
        /\ o.version = keys[o.key].version => keys[o.key].material # Empty
        => decrypt(o.key, owner[o.key], o)

\* A version number names one material: two answers of the key store about
\* the same version of the same key (exports, get_key_material_version,
\* ciphertexts, signatures), made at different times, never rest on two
\* different materials.
VersionIdentity ==
    \A o, p \in outputs :
        /\ o.key = p.key /\ o.version = p.version
        /\ o.material # Empty /\ p.material # Empty
        => o.material = p.material

\* Nothing made with a key, and none of its material, is handed to a caller
\* acting in another tenant, although verify_tenant and the operation are
\* two critical sections with destructions and creations between them.
TenantIsolation == \A o \in outputs : o.by = owner[o.key]

\* No operation brings a soft-deleted key back: rotate_key alone writes Active,
\* and never to a key in PendingDeletion, even when the delete fell between the
\* tenant check and the write lock of the rotation.  This is what the code does:
\* delete_key has no inverse.  It is not what F1-key-lifecycle.md asks for, whose
\* FR1.3.2 has a soft-deleted key recoverable within a grace period.
DeletionFinal ==
    [][\A k \in DOMAIN keys :
          keys[k].status = "PendingDeletion" /\ k \in DOMAIN keys'
          => keys'[k].status = "PendingDeletion"]_vars

\* Rotation "must not delete the old key material" (FR1.2.3), and a spec
\* without a generator is rejected "instead of silently overwriting [its]
\* material": no caller ever gets an empty vector for key material.
MaterialNeverEmpty == \A o \in outputs : o.material # Empty

-----------------------------------------------------------------------------
(* The key store implements KeyLifecycle.                                  *)

LifeState(status) ==
    IF status \in {"Active", "Obsolete"} THEN "Usable" ELSE "PendingDeletion"

\* The life of every key ever drawn; one that is gone from the table was
\* destroyed.
lives ==
    [k \in used |->
        IF k \in DOMAIN keys
        THEN [tenant |-> keys[k].tenant, state |-> LifeState(keys[k].status),
              version |-> keys[k].version]
        ELSE [tenant |-> owner[k], state |-> "Destroyed", version |-> 0]]

Lifecycle == INSTANCE KeyLifecycle WITH life <- lives

\* Seen through the key table, the interleaved critical sections of all
\* callers are creations, single-step rotations, soft deletes and
\* destructions in an order KeyLifecycle allows; a rejected rotation and
\* everything else leaves the lives of the keys alone.
ImplementsLifecycle == Lifecycle!Spec

-----------------------------------------------------------------------------
(* The inductive invariant the proofs of the properties above rest on.     *)

\* An entry and its history.  An archived version is never newer than the
\* current one, and as new as it only when a rejected rotation emptied it.
EntryInv ==
    \A k \in DOMAIN keys :
        LET e == keys[k] IN
        /\ e.tenant = owner[k]
        /\ e.status # "Destroyed"
        /\ \A i \in DOMAIN e.versions : e.versions[i].version <= e.version
        /\ e.material # Empty =>
             \A i \in DOMAIN e.versions : e.versions[i].version < e.version
        /\ \A j \in DOMAIN e.versions : \E i \in DOMAIN e.versions :
             IsFirst(e.versions, e.versions[j].version, i)

CallInv ==
    \A c \in DOMAIN calls :
        calls[c].key \in used /\ calls[c].tenant = owner[calls[c].key]

\* The material an output was made with is where decrypt will look for it.
Retained(e, o) ==
    /\ o.spec = e.spec /\ o.tenant = e.tenant
    /\ o.version <= e.version
    /\ o.material # Empty =>
         /\ o.version = e.version /\ e.material # Empty =>
              e.material = o.material
         /\ o.version < e.version \/ e.material = Empty =>
              /\ HasVersion(e.versions, o.version)
              /\ Find(e.versions, o.version) = o.material

OutputInv ==
    \A o \in outputs :
        /\ o.key \in used
        /\ o.by = owner[o.key]
        /\ o.kind = "cipher" => o.spec \in EncryptSpecs /\ o.material # Empty
        /\ o.key \in DOMAIN keys => Retained(keys[o.key], o)

IndInv == TypeOK /\ EntryInv /\ CallInv /\ OutputInv /\ VersionIdentity

=============================================================================
