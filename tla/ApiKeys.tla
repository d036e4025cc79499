------------------------------- MODULE ApiKeys -------------------------------
(***************************************************************************)
(* The credentials of the API, crates/kms-api/src/auth.rs: a role is a set *)
(* of permissions, an ApiKey carries a secret, a role, perhaps a tenant,   *)
(* an expiry and a lock, and ApiKeyConfig is one mutex over the sequence   *)
(* of keys, in which the first match counts.  The server builds the        *)
(* sequence at start-up and rejects duplicate secrets and key ids.         *)
(*                                                                         *)
(* Time is what it does: an expiry that is set is reached, a lock lapses.  *)
(***************************************************************************)
EXTENDS Naturals, Sequences, FiniteSets

CONSTANTS
    Declared,            \* the [[api_keys]] entries: [id, secret, role, tenant]
    NewSecrets,          \* secrets rotate_key is given
    MaxFailedAttempts,   \* max_failed_attempts (5 in the code)
    MaxCredentials,      \* bound: keys in the configuration
    MaxAdmin             \* bound: administrative calls

ASSUME CredentialsAssumption ==
    /\ MaxFailedAttempts \in Nat \ {0}
    /\ {MaxCredentials, MaxAdmin} \subseteq Nat

Unbound == "unbound"     \* ApiKey.tenant_id is None

VARIABLES
    creds,       \* valid_keys, in the order they were added
    rotating,    \* the calls of rotate_key between their two critical sections
    admin,       \* administrative calls so far
    revoked      \* key ids a revoke_key answered true for (history)

credVars == <<creds, rotating, admin, revoked>>

-----------------------------------------------------------------------------
(* Permissions and roles.                                                  *)

ReadPermissions   == {"LIST_KEYS", "GET_KEY"}
CryptoPermissions == {"ENCRYPT", "DECRYPT", "SIGN", "VERIFY", "HASH", "DH_DERIVE"}
LifecyclePermissions ==
    {"CREATE_KEY", "DELETE_KEY", "ROTATE_KEY", "IMPORT_KEY", "EXPORT_KEY"}
AdminPermissions ==
    {"MANAGE_POLICY", "VIEW_AUDIT", "EXPORT_AUDIT", "MANAGE_API_KEYS", "MANAGE_MFA",
     "APPROVE_ACTION"}
AUTHENTICATED == "LIST_KEYS"

permissions ==
    [ReadOnly        |-> ReadPermissions,
     Operator        |-> ReadPermissions \cup CryptoPermissions,
     KeyAdmin        |-> ReadPermissions \cup CryptoPermissions \cup LifecyclePermissions,
     SecurityOfficer |-> ReadPermissions \cup (AdminPermissions \ {"EXPORT_AUDIT"}),
     AuditAdmin      |-> {"VIEW_AUDIT", "EXPORT_AUDIT"},
     TenantAdmin     |-> ReadPermissions \cup {"APPROVE_ACTION"}]
Roles == DOMAIN permissions

\* The server does not start with two keys of one id or of one secret.
ASSUME DeclaredAssumption ==
    /\ Declared \in Seq([id : STRING, secret : STRING, role : Roles, tenant : STRING])
    /\ Len(Declared) <= MaxCredentials
    /\ \A i, j \in DOMAIN Declared :
         Declared[i].id = Declared[j].id \/ Declared[i].secret = Declared[j].secret => i = j

\* Every route asks for one permission; "" is Permission::empty().
satisfies(role, permission) == permission = "" \/ permission \in permissions[role]

-----------------------------------------------------------------------------
(* One key, and the lookups.                                               *)

\* expiry: "never" until an expiry is set, "set" until it is reached.
NewKey(id, secret, role, tenant) ==
    [id |-> id, secret |-> secret, role |-> role, tenant |-> tenant, revoked |-> FALSE,
     expiry |-> "never", locked |-> FALSE, failed |-> 0]

is_valid_Revoked(k) == k.expiry # "reached"    \* mutant: the revocation is not looked at
is_valid(k) == ~k.revoked /\ k.expiry # "reached"
Usable(k) == is_valid(k) /\ ~k.locked

\* The first key of the sequence that satisfies the test, as a set.
FirstOf(indices) == {i \in indices : \A j \in indices : i <= j}
WithSecret(s) == {i \in DOMAIN creds : creds[i].secret = s}
WithId(id) == {i \in DOMAIN creds : creds[i].id = id}

validate(s) == {creds[i] : i \in FirstOf({j \in WithSecret(s) : Usable(creds[j])})}
lookup_key_id(s) == {creds[i].id : i \in FirstOf(WithSecret(s))}
lookup_tenant(s) == {creds[i].tenant : i \in FirstOf(WithSecret(s))}
has_permission(s, permission) == \E k \in validate(s) : satisfies(k.role, permission)

-----------------------------------------------------------------------------
(* The operations of ApiKeyConfig.                                         *)

CredsInit ==
    /\ creds = [i \in DOMAIN Declared |->
                  NewKey(Declared[i].id, Declared[i].secret, Declared[i].role,
                         Declared[i].tenant)]
    /\ rotating = {}
    /\ admin = 0
    /\ revoked = {}

Administer == admin < MaxAdmin /\ admin' = admin + 1

Change(i, k) == creds' = [creds EXCEPT ![i] = k]

\* Revokes the first key of that id.
revoke_key(id) ==
    /\ Administer
    /\ \E i \in FirstOf(WithId(id)) :
         /\ Change(i, [creds[i] EXCEPT !.revoked = TRUE])
         /\ revoked' = revoked \cup {id}
    /\ UNCHANGED rotating

\* lock: until now + lockout_duration, whatever lock is in force.
Lock(i) == creds' = [creds EXCEPT ![i].locked = TRUE]
lock_key_by_id(id) == \E i \in FirstOf(WithId(id)) : Lock(i)

\* rotate_key, first critical section: the old key expires after the grace
\* period (an expiry it has is replaced).
Graceful(k) == [k EXCEPT !.expiry = "set"]
rotate_key_expire(id, secret, role) ==
    /\ Administer
    /\ \E i \in FirstOf(WithId(id)) : Change(i, Graceful(creds[i]))
    /\ rotating' = rotating \cup {[from |-> id, secret |-> secret, role |-> role]}
    /\ UNCHANGED revoked

\* Second: the new key is added, with no tenant.
RotatedId(id) == id \o "-rotated"
rotate_key_add(r) ==
    /\ Len(creds) < MaxCredentials
    /\ creds' = Append(creds, NewKey(RotatedId(r.from), r.secret, r.role, Unbound))
    /\ rotating' = rotating \ {r}
    /\ UNCHANGED <<admin, revoked>>

\* record_failed_attempt for a known secret; an unknown one only delays.
LocksAt(n) == n >= MaxFailedAttempts
record_failed_attempt(s) ==
    /\ Administer
    /\ \E i \in FirstOf(WithSecret(s)) :
         Change(i, [creds[i] EXCEPT !.failed = @ + 1,
                                    !.locked = @ \/ LocksAt(creds[i].failed + 1)])
    /\ UNCHANGED <<rotating, revoked>>
record_successful_login(s) ==
    /\ Administer
    /\ \E i \in FirstOf(WithSecret(s)) :
         Change(i, [creds[i] EXCEPT !.failed = 0, !.locked = FALSE])
    /\ UNCHANGED <<rotating, revoked>>

\* Time passes.  A grace period outlasts the call of rotate_key that set it.
ExpiryReached(i) ==
    /\ creds[i].expiry = "set"
    /\ ~\E r \in rotating : r.from = creds[i].id
    /\ creds' = [creds EXCEPT ![i].expiry = "reached"]
LockLapses(i) ==
    /\ creds[i].locked
    /\ creds' = [creds EXCEPT ![i].locked = FALSE]

Known == {creds[i].id : i \in DOMAIN creds}
KnownSecrets == {creds[i].secret : i \in DOMAIN creds}

\* A secret is rotated in once: the operator draws a fresh one.
FreshSecrets == NewSecrets \ (KnownSecrets \cup {r.secret : r \in rotating})

CredsNext ==
    \/ \E id \in Known :
         \/ revoke_key(id)
         \/ Administer /\ lock_key_by_id(id) /\ UNCHANGED <<rotating, revoked>>
         \/ \E s \in FreshSecrets, i \in WithId(id) :
              rotate_key_expire(id, s, creds[i].role)
    \/ \E r \in rotating : rotate_key_add(r)
    \/ \E s \in KnownSecrets : record_failed_attempt(s) \/ record_successful_login(s)
    \/ \E i \in DOMAIN creds :
         (ExpiryReached(i) \/ LockLapses(i)) /\ UNCHANGED <<rotating, admin, revoked>>

CredsSpec == CredsInit /\ [][CredsNext]_credVars

-----------------------------------------------------------------------------
(* Properties.                                                             *)

\* The roles, states and counters of the keys stay in their domains.
CredsTypeOK ==
    /\ \A i \in DOMAIN creds :
         /\ creds[i].role \in Roles
         /\ creds[i].expiry \in {"never", "set", "reached"}
         /\ {creds[i].revoked, creds[i].locked} \subseteq BOOLEAN
         /\ creds[i].failed \in 0..MaxAdmin
    /\ Len(creds) \in Len(Declared)..MaxCredentials
    /\ admin \in 0..MaxAdmin

\* rotate_key never strands its client: the old secret is accepted through
\* the grace period, unless somebody revoked or locked the key, and by the
\* time it is over the key that replaces it has been added.
RotationOverlaps ==
    \A i \in DOMAIN creds :
      /\ creds[i].expiry = "set" /\ ~creds[i].revoked /\ ~creds[i].locked
           => validate(creds[i].secret) # {}
      /\ creds[i].expiry = "reached" => WithId(RotatedId(creds[i].id)) # {}

\* A key id that was revoked authenticates nobody, now and for good, as long
\* as one key bears it.  (Rotating a key twice gives two keys the same id, of
\* which revoke_key finds the first.)
RevokedIsDead ==
    \A id \in revoked :
      Cardinality(WithId(id)) = 1 =>
        \A i \in WithId(id) : \A k \in validate(creds[i].secret) : k.id # id

\* A rotation never leaves its client without a valid key, and a revocation is
\* for good.
CredentialsSound == CredsTypeOK /\ RotationOverlaps /\ RevokedIsDead

=============================================================================
