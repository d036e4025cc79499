---------------------------- MODULE ServiceParts ----------------------------
(***************************************************************************)
(* Where two components of the services serve one purpose.  The two share  *)
(* no state, so that a step is one of either.                              *)
(*                                                                         *)
(* Redis holds the cached key store (kms-keystore, cache.rs) and the key   *)
(* exchange sessions (sm2_kex_session.rs), under different keys of it.     *)
(* Versions are managed by the SM9 rotation adapter (kms-core,             *)
(* sm9_key_rotation.rs) and the secret rotation manager                    *)
(* (secret_rotation.rs).  The second factor is the MFA manager (kms-api,   *)
(* mfa.rs) and the codes (kms-mfa), one module.  Accesses are counted by   *)
(* the rate limiters and by the anomaly detector.                          *)
(***************************************************************************)
EXTENDS RedisCachedKeystore, RedisKexSessions, Sm9Rotation, SecretRotation,
        Mfa, RateLimits, Anomaly

-----------------------------------------------------------------------------
(* Redis.                                                                  *)

redisVars == <<cachedVars, kexStoreVars>>

RedisInit == CachedInit /\ KexStoreInit
RedisNext ==
    \/ CachedNext /\ UNCHANGED kexStoreVars
    \/ KexStoreNext /\ UNCHANGED cachedVars
RedisSpec == RedisInit /\ [][RedisNext]_redisVars

\* What servers share through Redis is never more than an overlap, a failure
\* or a time to live away from what one server alone would have left there.
RedisSound == CachedStoreSound /\ KexSessionsSound

-----------------------------------------------------------------------------
(* Versions.                                                               *)

versionVars == <<sm9Vars, secretVars>>

VersionsInit == Sm9Init /\ SecretInit
VersionsNext ==
    \/ Sm9Next /\ UNCHANGED secretVars
    \/ SecretNext /\ UNCHANGED sm9Vars
VersionsSpec == VersionsInit /\ [][VersionsNext]_versionVars

\* The managers of versions in kms-core keep their numbers apart and their
\* newest version in use, whatever calls overlap, fail or are dropped.
VersionsSound == Sm9RegistrySound /\ SecretsSound

-----------------------------------------------------------------------------
(* The second factor.                                                      *)

factorVars == <<mfaVars, codeVars>>

FactorInit == MfaInit /\ CodesInit
FactorNext ==
    \/ MfaNext /\ UNCHANGED codeVars
    \/ CodesNext /\ UNCHANGED mfaVars
FactorSpec == FactorInit /\ [][FactorNext]_factorVars

\* The second factor's locks hold in the manager's rows, and its codes for their
\* time and once.
MfaSound == SecondFactorSound /\ CodesSound

-----------------------------------------------------------------------------
(* Counted accesses.                                                       *)

counterVars == <<limitVars, anomalyVars>>

CountersInit == RateLimitsInit /\ AnomalyInit
CountersNext ==
    \/ RateLimitsNext /\ UNCHANGED anomalyVars
    \/ AnomalyNext /\ UNCHANGED limitVars
CountersSpec == CountersInit /\ [][CountersNext]_counterVars

\* What counts accesses, to refuse them or to raise an alert, overlooks none.
CountersSound == LimitsHold /\ AnomalySound

=============================================================================
