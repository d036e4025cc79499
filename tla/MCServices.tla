----------------------------- MODULE MCServices -----------------------------
(* Instances for TLC of the components behind the handlers.  They share no   *)
(* state, so that a behaviour is one of any of them: part says of which.     *)
EXTENDS KeyServices, ApiKeys, RotationScheduler, BreakGlass, BoundedKeyCache,
        ServiceParts, Webhooks, PolicyConditions, TLC

VARIABLE part

MCExisting == [k \in {"k1"} |-> "tA"]

MCDeclared ==
    <<[id |-> "id1", secret |-> "s1", role |-> "Operator", tenant |-> "tA"],
      [id |-> "id2", secret |-> "s2", role |-> "KeyAdmin", tenant |-> Unbound]>>

OfKind(kind) == [kind |-> kind, days |-> 1, operations |-> 2, versions |-> 2]
MCRotationPolicies == {OfKind(kind) : kind \in {"time", "usage", "version", "combined"}}

\* Break glass: on and past the deadlines of requests made at 0 and at 30
\* minutes, for half an hour and for more than the cap.
MCInstants == {0, 30, 60, 61, 91}
MCDurations == {30, 90}

\* The configuration draws the workers, verifiers, requesters, schedulers,
\* request ids, cached keys and inserting threads from the same two values:
\* exchanging them is a symmetry of every part.
Symmetry == Permutations(Workers)

\* Secrets that outlive their versions, expire, and are not kept at all.
MCSecretConfigs == {[ttl |-> 1, keep |-> 2], [ttl |-> 2, keep |-> 0], [ttl |-> 3, keep |-> 3]}

\* One webhook asks for deletions of k1, the other for all one user does but the
\* changes of policies.
AnyEvent == [include |-> {}, exclude |-> {}, actors |-> {}, resources |-> {}]
MCFilters == "h1" :> [AnyEvent EXCEPT !.include = {"KeyDeleted"}, !.resources = {"k1"}]
          @@ "h2" :> [AnyEvent EXCEPT !.exclude = {"PolicyChanged"}, !.actors = {"u1"}]
MCEvents == {[type |-> "KeyDeleted", actor |-> "u1", resource |-> "k1"],
             [type |-> "PolicyChanged", actor |-> "u1", resource |-> "none"],
             [type |-> "KeyDeleted", actor |-> "u2", resource |-> "none"]}

\* Globs of up to three parts, texts twice as long as a part, and conditions of
\* conditions.
Words(n) == UNION {[1..k -> {"a", "b"}] : k \in 0..n}
MCGlobs == UNION {[1..k -> Words(2)] : k \in 1..3}
MCTexts == Words(4)
Is(attribute, value) == [operator |-> "eq", attribute |-> attribute, value |-> value]
Before(attribute) == [operator |-> "not_expired", attribute |-> attribute]
Simple == {[operator |-> "always"], [operator |-> "never"], Is("role", "u"), Is("until", "v"),
           [operator |-> "in", attribute |-> "role", values |-> {"u", "v"}], Before("until"),
           [operator |-> "time_range", start |-> <<1, 0>>, end |-> <<0, 0>>]}
Trees(args) == {[operator |-> o, args |-> s] :
                  o \in {"and", "or"}, s \in {x \in SUBSET args : Cardinality(x) <= 2}}
MCConditions ==
    Simple \cup Trees(Simple)
      \cup Trees({[operator |-> "or", args |-> {Is("role", "u"), Is("until", "v")}], Before("role")})

Parts == {"services", "credentials", "mfa", "limits", "rotation", "break_glass",
          "cache", "cached_store", "kex_sessions", "sm9", "secrets", "webhooks",
          "conditions", "codes", "anomaly"}

MCInit ==
    /\ part \in Parts
    /\ ServicesInit /\ CredsInit /\ MfaInit /\ RateLimitsInit /\ RotationInit
    /\ Init /\ CacheInit /\ CachedInit /\ KexStoreInit /\ Sm9Init /\ SecretInit
    /\ WebhooksInit /\ ConditionsInit /\ CodesInit /\ AnomalyInit
    /\ part # "mfa" => durable
    /\ part # "limits" => limiter = "tenant"
    /\ part # "rotation" => policy = OfKind("time")
    /\ part # "cached_store" => inPlace

MCNext ==
    \/ /\ part = "services" /\ ServicesNext
       /\ UNCHANGED <<part, credVars, mfaVars, limitVars, rotationVars, vars, cacheVars,
                      cachedVars, kexStoreVars, sm9Vars, secretVars, webhookVars,
                      conditionVars, codeVars, anomalyVars>>
    \/ /\ part = "credentials" /\ CredsNext
       /\ UNCHANGED <<part, serviceVars, mfaVars, limitVars, rotationVars, vars, cacheVars,
                      cachedVars, kexStoreVars, sm9Vars, secretVars, webhookVars,
                      conditionVars, codeVars, anomalyVars>>
    \/ /\ part = "mfa" /\ MfaNext
       /\ UNCHANGED <<part, serviceVars, credVars, limitVars, rotationVars, vars, cacheVars,
                      cachedVars, kexStoreVars, sm9Vars, secretVars, webhookVars,
                      conditionVars, codeVars, anomalyVars>>
    \/ /\ part = "limits" /\ RateLimitsNext
       /\ UNCHANGED <<part, serviceVars, credVars, mfaVars, rotationVars, vars, cacheVars,
                      cachedVars, kexStoreVars, sm9Vars, secretVars, webhookVars,
                      conditionVars, codeVars, anomalyVars>>
    \/ /\ part = "rotation" /\ RotationNext
       /\ UNCHANGED <<part, serviceVars, credVars, mfaVars, limitVars, vars, cacheVars,
                      cachedVars, kexStoreVars, sm9Vars, secretVars, webhookVars,
                      conditionVars, codeVars, anomalyVars>>
    \/ /\ part = "break_glass" /\ Next
       /\ UNCHANGED <<part, serviceVars, credVars, mfaVars, limitVars, rotationVars, cacheVars,
                      cachedVars, kexStoreVars, sm9Vars, secretVars, webhookVars,
                      conditionVars, codeVars, anomalyVars>>
    \/ /\ part = "cache" /\ CacheNext
       /\ UNCHANGED <<part, serviceVars, credVars, mfaVars, limitVars, rotationVars, vars,
                      cachedVars, kexStoreVars, sm9Vars, secretVars, webhookVars,
                      conditionVars, codeVars, anomalyVars>>
    \/ /\ part = "cached_store" /\ CachedNext
       /\ UNCHANGED <<part, serviceVars, credVars, mfaVars, limitVars, rotationVars, vars,
                      cacheVars, kexStoreVars, sm9Vars, secretVars, webhookVars,
                      conditionVars, codeVars, anomalyVars>>
    \/ /\ part = "kex_sessions" /\ KexStoreNext
       /\ UNCHANGED <<part, serviceVars, credVars, mfaVars, limitVars, rotationVars, vars,
                      cacheVars, cachedVars, sm9Vars, secretVars, webhookVars,
                      conditionVars, codeVars, anomalyVars>>
    \/ /\ part = "sm9" /\ Sm9Next
       /\ UNCHANGED <<part, serviceVars, credVars, mfaVars, limitVars, rotationVars, vars,
                      cacheVars, cachedVars, kexStoreVars, secretVars, webhookVars,
                      conditionVars, codeVars, anomalyVars>>
    \/ /\ part = "secrets" /\ SecretNext
       /\ UNCHANGED <<part, serviceVars, credVars, mfaVars, limitVars, rotationVars, vars,
                      cacheVars, cachedVars, kexStoreVars, sm9Vars, webhookVars,
                      conditionVars, codeVars, anomalyVars>>
    \/ /\ part = "webhooks" /\ WebhooksNext
       /\ UNCHANGED <<part, serviceVars, credVars, mfaVars, limitVars, rotationVars, vars,
                      cacheVars, cachedVars, kexStoreVars, sm9Vars, secretVars, conditionVars, codeVars, anomalyVars>>
    \/ /\ part = "conditions" /\ ConditionsNext
       /\ UNCHANGED <<part, serviceVars, credVars, mfaVars, limitVars, rotationVars, vars,
                      cacheVars, cachedVars, kexStoreVars, sm9Vars, secretVars, webhookVars, codeVars, anomalyVars>>
    \/ /\ part = "codes" /\ CodesNext
       /\ UNCHANGED <<part, serviceVars, credVars, mfaVars, limitVars, rotationVars, vars,
                      cacheVars, cachedVars, kexStoreVars, sm9Vars, secretVars, webhookVars,
                      conditionVars, anomalyVars>>
    \/ /\ part = "anomaly" /\ AnomalyNext
       /\ UNCHANGED <<part, serviceVars, credVars, mfaVars, limitVars, rotationVars, vars,
                      cacheVars, cachedVars, kexStoreVars, sm9Vars, secretVars, webhookVars,
                      conditionVars, codeVars>>

MCVars == <<part, serviceVars, credVars, mfaVars, limitVars, rotationVars, vars,
            cacheVars, cachedVars, kexStoreVars, sm9Vars, secretVars, webhookVars,
            conditionVars, codeVars, anomalyVars>>
MCSpec == MCInit /\ [][MCNext]_MCVars

\* What decides by filters and patterns, the webhooks for an event and the
\* policies for a request, takes what they mean and answers for what it did.
MatchersSound == WebhooksSound /\ ConditionsSound

=============================================================================
