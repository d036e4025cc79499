---------------------------- MODULE KeyLifecycle ----------------------------
(***************************************************************************)
(* What a key store promises about the life of its keys: the operations of *)
(* the trait KeystoreBackend (crates/kms-keystore/src/backend.rs) that     *)
(* change a key, over the statuses of crates/kms-core/src/key.rs.          *)
(*                                                                         *)
(* A key belongs to one tenant for ever, its version only grows and by one *)
(* rotation at a time, and what was destroyed never comes back.  The trait *)
(* has no operation that takes a soft delete back, so that a soft-deleted  *)
(* key stays so until it is destroyed; the recovery within a grace period  *)
(* that F1-key-lifecycle.md (FR1.3.2) asks for is not part of it.          *)
(***************************************************************************)
EXTENDS Naturals

CONSTANTS KeyIds, Tenants

VARIABLE life  \* id -> its life so far, for every id ever created

\* "Usable" covers Active and Obsolete, the statuses that may be rotated.
State == {"Usable", "PendingDeletion", "Destroyed"}

Life == [tenant : Tenants, state : State, version : Nat]

Extend(f, k, e) == [x \in DOMAIN f \cup {k} |-> IF x = k THEN e ELSE f[x]]

Init == life = [k \in {} |-> 0]

\* generate_key, import_key_material.
Create(k, t) ==
    /\ k \notin DOMAIN life
    /\ life' = Extend(life, k, [tenant |-> t, state |-> "Usable", version |-> 1])

\* rotate_key: "creates a new version".
Rotate(k) ==
    /\ k \in DOMAIN life
    /\ life[k].state = "Usable"
    /\ life' = [life EXCEPT ![k].version = @ + 1]

\* delete_key: "Mark a key for deletion (soft delete)".
Delete(k) ==
    /\ k \in DOMAIN life
    /\ life[k].state # "Destroyed"
    /\ life' = [life EXCEPT ![k].state = "PendingDeletion"]

\* destroy_key, destroy_key_with_proof: "Permanently destroy a key".  Nothing
\* but the owner is known of the key from then on.
Destroy(k) ==
    /\ k \in DOMAIN life
    /\ life[k].state # "Destroyed"
    /\ life' = [life EXCEPT ![k] = [tenant |-> life[k].tenant,
                                    state |-> "Destroyed", version |-> 0]]

Next ==
    \E k \in KeyIds :
        \/ \E t \in Tenants : Create(k, t)
        \/ Rotate(k)
        \/ Delete(k)
        \/ Destroy(k)

Spec == Init /\ [][Next]_life

=============================================================================
