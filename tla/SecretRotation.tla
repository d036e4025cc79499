--------------------------- MODULE SecretRotation ---------------------------
(***************************************************************************)
(* SecretRotationManager, crates/kms-core/src/secret_rotation.rs: the      *)
(* versions of a secret, newest first, with one of them active.  Secrets   *)
(* share nothing: this is one name.                                        *)
(***************************************************************************)
EXTENDS Naturals, Sequences

CONSTANTS
    SecretConfigs,      \* RotationConfig: [ttl, keep]
    LastSecretTime,     \* bound: the clock
    MaxSecretCalls      \* bound: changes

ASSUME SecretAssumption ==
    /\ \A c \in SecretConfigs : {c.ttl, c.keep} \subseteq Nat
    /\ {LastSecretTime, MaxSecretCalls} \subseteq Nat

VARIABLES
    config,         \* its configuration, or NoConfig
    secrets,        \* its versions
    lastRotation,   \* the newest record since the registration, and whether a rotation
                    \* has failed since, of which there is no record (history)
    secretTime,
    secretCalls,    \* bounded
    drawn,          \* versions made since the registration (history)
    numbersReset    \* a rotation found no version in use, or followed a rollback (history)

secretVars == <<config, secrets, lastRotation, secretTime, secretCalls, drawn, numbersReset>>

NoConfig == [ttl |-> 0, keep |-> 0]
None == 0
NoRotation == [old |-> None, new |-> None, failed |-> FALSE]

SecretInit ==
    /\ config = NoConfig
    /\ secrets = <<>>
    /\ lastRotation = NoRotation
    /\ secretTime = 0
    /\ secretCalls = 0
    /\ drawn = 0
    /\ numbersReset = FALSE

Live(v) == v.active /\ secretTime <= v.expires
Indices(P(_)) == {i \in DOMAIN secrets : P(secrets[i])}
\* get_active: the number of the first one that is live.
get_active ==
    LET live == Indices(Live)
    IN  IF live = {} THEN None ELSE secrets[CHOOSE i \in live : \A j \in live : i <= j].version

Called == secretCalls < MaxSecretCalls /\ secretCalls' = secretCalls + 1
Deactivated(versions) == [i \in DOMAIN versions |-> [versions[i] EXCEPT !.active = FALSE]]
Version(n, c) == [version |-> n, expires |-> secretTime + c.ttl, active |-> TRUE]

\* register, again for a name that is registered: the versions are forgotten.
register_secret ==
    /\ Called
    /\ \E c \in SecretConfigs : config' = c /\ secrets' = <<Version(1, c)>>
    /\ drawn' = 1
    /\ lastRotation' = NoRotation
    /\ numbersReset' = FALSE
    /\ UNCHANGED secretTime

\* rotate.  The old versions are out of use before the new secret is drawn, and
\* stay so when that fails.
Trimmed(versions) == SubSeq(versions, 1, IF Len(versions) < config.keep THEN Len(versions) ELSE config.keep)
AddVersion_Active(versions, v) == Trimmed(<<v>> \o secrets)      \* mutant: the old one stays active
AddVersion(versions, v) == Trimmed(<<v>> \o versions)
rotate_secret ==
    /\ Called
    /\ config # NoConfig
    /\ \/ /\ secrets' = AddVersion(Deactivated(secrets), Version(get_active + 1, config))
          /\ lastRotation' = [old |-> get_active, new |-> get_active + 1, failed |-> FALSE]
          /\ drawn' = drawn + 1
       \/ /\ secrets' = Deactivated(secrets)
          /\ lastRotation' = [lastRotation EXCEPT !.failed = TRUE]
          /\ UNCHANGED drawn
    /\ numbersReset' = (numbersReset \/ get_active = None \/ get_active # drawn)
    /\ UNCHANGED <<config, secretTime>>

\* rollback to the newest version of that number.
rollback(n) ==
    /\ Called
    /\ \E i \in DOMAIN secrets :
         /\ secrets[i].version = n
         /\ \A j \in 1..(i - 1) : secrets[j].version # n
         /\ secrets' = [Deactivated(secrets) EXCEPT ![i].active = TRUE]
    /\ lastRotation' = [old |-> None, new |-> n, failed |-> FALSE]
    /\ numbersReset' = (numbersReset \/ n # drawn)
    /\ UNCHANGED <<config, secretTime, drawn>>

SecretTick ==
    /\ secretTime < LastSecretTime
    /\ secretTime' = secretTime + 1
    /\ UNCHANGED <<config, secrets, lastRotation, secretCalls, drawn, numbersReset>>

SecretNext ==
    \/ register_secret \/ rotate_secret \/ SecretTick
    \/ \E n \in 1..MaxSecretCalls : rollback(n)

-----------------------------------------------------------------------------
(* Properties.                                                             *)

InUse(v) == v.active

\* One version of a secret is in use, the one the last record names; none is
\* after a rotation that could not draw a new secret.
OneInUse ==
    LET named == IF lastRotation.new = None THEN 1 ELSE lastRotation.new
    IN  ~lastRotation.failed /\ secrets # <<>> =>
          \E i \in DOMAIN secrets : Indices(InUse) = {i} /\ secrets[i].version = named

\* The newest versions are kept, as many as configured, and a number names one
\* of them, unless a rotation found no version in use (its number begins again
\* at 1) or came after a rollback.
NumbersName ==
    /\ config # NoConfig => Len(secrets) <= (IF config.keep = 0 THEN 1 ELSE config.keep)
    /\ ~numbersReset => \A i, j \in DOMAIN secrets : i < j => secrets[i].version = secrets[j].version + (j - i)

\* The versions of a secret can be told apart and rolled back to.
SecretsSound == OneInUse /\ NumbersName

=============================================================================
