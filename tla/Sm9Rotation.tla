----------------------------- MODULE Sm9Rotation -----------------------------
(***************************************************************************)
(* Sm9RotationAdapter, crates/kms-core/src/sm9_key_rotation.rs.  A tenant  *)
(* has one manager (of gm-sm9-rs) with a line of versions for signing and  *)
(* one for encryption, whatever the number of keys it registers; the       *)
(* registry says which version each key is at.  A call holds the lock of   *)
(* the managers from its change of them to its end, over the encryption of *)
(* the new key and the update of the registry, whose lock is another one.  *)
(***************************************************************************)
EXTENDS Naturals, FiniteSets, FiniteSetsExt

CONSTANTS
    Sm9Callers,
    Sm9Keys,          \* ids of keys
    Sm9Tenants,
    GracePeriod,      \* of every rotation
    LastSm9Version,   \* bound: versions
    LastSm9Time       \* bound: the clock

ASSUME Sm9Assumption ==
    /\ {GracePeriod, LastSm9Version, LastSm9Time} \subseteq Nat
    /\ "none" \notin Sm9Callers

VARIABLES
    manager,      \* tenant -> type -> [current, until]: until[v] is the end of v's grace
    registry,     \* key -> [tenant, type, version]
    managersLock, \* the caller that holds managers.write(), or "none"
    adapterCall,  \* caller -> its call
    sm9Time,
    unregistered  \* lines one of whose versions no key ever got (history)

sm9Vars == <<manager, registry, managersLock, adapterCall, sm9Time, unregistered>>

Types == {"sign", "enc"}
NoKeyEntry == [tenant |-> "none", type |-> "none", version |-> 0]
NoAdapterCall == [at |-> "idle", key |-> "none", entry |-> NoKeyEntry]
Forever == LastSm9Time + GracePeriod + 1

Sm9Init ==
    /\ manager = [t \in Sm9Tenants |-> [y \in Types |-> [current |-> 0, until |-> [v \in 1..LastSm9Version |-> 0]]]]
    /\ registry = [k \in Sm9Keys |-> NoKeyEntry]
    /\ managersLock = "none"
    /\ adapterCall = [c \in Sm9Callers |-> NoAdapterCall]
    /\ sm9Time = 0
    /\ unregistered = {}

Line(t, y) == manager[t][y]

\* gm-sm9-rs: a new version, and a grace period for the one before.
NextVersion(t, y) ==
    LET m == Line(t, y)
    IN  [current |-> m.current + 1,
         until |-> [v \in 1..LastSm9Version |->
                      IF v = m.current + 1 THEN Forever
                      ELSE IF v = m.current THEN sm9Time + GracePeriod ELSE m.until[v]]]
current_version(t, y) == Line(t, y).current
is_key_valid(t, y, v) == v = current_version(t, y) \/ Line(t, y).until[v] > sm9Time
valid_versions(t, y) == {v \in 1..current_version(t, y) : is_key_valid(t, y, v)}

Advance(t, y) ==
    /\ current_version(t, y) < LastSm9Version
    /\ manager' = [manager EXCEPT ![t][y] = NextVersion(t, y)]
Locked(c, k, t, y) ==
    /\ managersLock = "none"
    /\ managersLock' = c
    /\ adapterCall' = [adapterCall EXCEPT ![c] =
         [at |-> "encrypt", key |-> k,
          entry |-> [tenant |-> t, type |-> y, version |-> current_version(t, y) + 1]]]

\* register_sign_key, register_enc_key up to the encryption: a new id.
register(c, k, t, y) ==
    /\ adapterCall[c].at = "idle"
    /\ registry[k] = NoKeyEntry /\ \A d \in Sm9Callers : adapterCall[d].key # k
    /\ Advance(t, y) /\ Locked(c, k, t, y)
    /\ UNCHANGED <<registry, sm9Time, unregistered>>
register_sign_key(c, k, t) == register(c, k, t, "sign")
register_enc_key(c, k, t) == register(c, k, t, "enc")

\* get_entry and the check of the type, with which a rotation begins.
get_entry(c, k, y) ==
    /\ adapterCall[c].at = "idle"
    /\ registry[k].type = y
    /\ adapterCall' = [adapterCall EXCEPT ![c] = [at |-> "rotate", key |-> k, entry |-> registry[k]]]
    /\ UNCHANGED <<manager, registry, managersLock, sm9Time, unregistered>>

\* rotate_sign_key, rotate_enc_key up to the encryption.
rotate(c, y) ==
    LET e == adapterCall[c].entry
    IN  /\ adapterCall[c].at = "rotate" /\ e.type = y
        /\ Advance(e.tenant, y) /\ Locked(c, adapterCall[c].key, e.tenant, y)
        /\ UNCHANGED <<registry, sm9Time, unregistered>>
rotate_sign_key(c) == rotate(c, "sign")
rotate_enc_key(c) == rotate(c, "enc")

\* kek_store.encrypt, whose answer nobody keeps.  Without a usable KEK the call
\* ends, and the manager stays where it is.
Unlock(c) == managersLock' = IF managersLock = c THEN "none" ELSE managersLock
encrypt_key_Unlocked(c) ==   \* mutant: the lock ends with the change of the manager
    /\ adapterCall[c].at = "encrypt"
    /\ adapterCall' = [adapterCall EXCEPT ![c].at = "update"]
    /\ Unlock(c)
    /\ UNCHANGED <<manager, registry, sm9Time, unregistered>>
encrypt_key(c) ==
    /\ adapterCall[c].at = "encrypt"
    /\ \/ /\ adapterCall' = [adapterCall EXCEPT ![c].at = "update"]
          /\ UNCHANGED <<managersLock, unregistered>>
       \/ /\ adapterCall' = [adapterCall EXCEPT ![c] = NoAdapterCall]
          /\ unregistered' = unregistered \cup {<<adapterCall[c].entry.tenant, adapterCall[c].entry.type>>}
          /\ Unlock(c)
    /\ UNCHANGED <<manager, registry, sm9Time>>

\* update_registry_version, or the insertion of a registration.
update_registry_version(c) ==
    /\ adapterCall[c].at = "update"
    /\ registry' = [registry EXCEPT ![adapterCall[c].key] = adapterCall[c].entry]
    /\ adapterCall' = [adapterCall EXCEPT ![c] = NoAdapterCall]
    /\ Unlock(c)
    /\ UNCHANGED <<manager, sm9Time, unregistered>>

\* The request is dropped at one of its awaits.
drop_adapter_call(c) ==
    /\ adapterCall[c].at # "idle"
    /\ adapterCall' = [adapterCall EXCEPT ![c] = NoAdapterCall]
    /\ unregistered' = IF adapterCall[c].at = "rotate" THEN unregistered
                       ELSE unregistered \cup {<<adapterCall[c].entry.tenant, adapterCall[c].entry.type>>}
    /\ Unlock(c)
    /\ UNCHANGED <<manager, registry, sm9Time>>

Sm9Tick ==
    /\ sm9Time < LastSm9Time
    /\ sm9Time' = sm9Time + 1
    /\ UNCHANGED <<manager, registry, managersLock, adapterCall, unregistered>>

Sm9Next ==
    \/ \E c \in Sm9Callers, k \in Sm9Keys :
         \/ \E t \in Sm9Tenants : register_sign_key(c, k, t) \/ register_enc_key(c, k, t)
         \/ \E y \in Types : get_entry(c, k, y)
    \/ \E c \in Sm9Callers :
         \/ rotate_sign_key(c) \/ rotate_enc_key(c)
         \/ encrypt_key(c) \/ update_registry_version(c) \/ drop_adapter_call(c)
    \/ Sm9Tick

-----------------------------------------------------------------------------
(* Properties.                                                             *)

OfLine(t, y) == {k \in Sm9Keys : registry[k].tenant = t /\ registry[k].type = y}

\* No two keys are at the same version, and a key the registry knows is at one
\* that its tenant's manager has, however rotations of it overlap.
VersionsApart ==
    \A t \in Sm9Tenants, y \in Types :
      \A k \in OfLine(t, y) :
        /\ registry[k].version \in 1..current_version(t, y)
        /\ \A o \in OfLine(t, y) \ {k} : registry[o].version # registry[k].version

\* Between calls the newest version has its key, unless the encryption of a new
\* version failed or its request was dropped.
NewestRegistered ==
    \A t \in Sm9Tenants, y \in Types :
      (\A c \in Sm9Callers : adapterCall[c].at \in {"idle", "rotate"}) /\ <<t, y>> \notin unregistered
        => current_version(t, y) = Max({0} \cup {registry[k].version : k \in OfLine(t, y)})

\* The newest version of a line is among the valid ones, and every other one
\* leaves them within a grace period, whichever key it was a version of.
GraceEnds ==
    \A t \in Sm9Tenants, y \in Types :
      /\ current_version(t, y) > 0 => current_version(t, y) \in valid_versions(t, y)
      /\ \A v \in valid_versions(t, y) \ {current_version(t, y)} : Line(t, y).until[v] <= sm9Time + GracePeriod

\* Registry and managers tell the same story.
Sm9RegistrySound == VersionsApart /\ NewestRegistered /\ GraceEnds

=============================================================================
