---------------------------- MODULE KmsApi_proofs ----------------------------
(***************************************************************************)
(* Proofs about KmsApi, for any number of clients, keys, policies,         *)
(* credentials and approval requests.                                      *)
(***************************************************************************)
EXTENDS KmsApi, SequenceTheorems, WellFoundedInduction, TLAPS

-----------------------------------------------------------------------------
(* The programs of the handlers: what is always behind a step.             *)

Permitting == {"has_permission", "check_permission"}
Naming == {"lookup_key_id", "validate_with_identity"}
Resolving == {"resolve", "resolve_strict", "tenantless"}

AuthSteps == {"rate_limit", "lookup_tenant", "validate"} \cup Naming \cup Permitting
HandlerSteps ==
    Resolving \cup Effects \cup
    {"input", "pbac", "own_key", "require_approved", "backup", "audit", "mfa_locked_out",
     "mfa_usage", "policy_known", "listing_tenant", "approval_tenant"}
Steps == AuthSteps \cup HandlerSteps

\* Some step of t comes before every step of s; p has a step s.
Behind(p, s, t) == \A j \in DOMAIN p : p[j] \in s => \E i \in DOMAIN p : i < j /\ p[i] \in t
Has(p, s) == \E i \in DOMAIN p : p[i] = s

\* The operations a step is part of, and the channel.
Belongs(s, op) ==
    /\ s \in {"pbac", "check_permission"} => op \in SharedOps
    /\ s = "require_approved" => op \in GatedOps
    /\ s \in {"resolve", "resolve_strict"} => op \notin TenantlessOps
    /\ s = "tenantless" => op \in TenantlessOps
    /\ s = "own_key" => op \in {"dh_derive", "create_approval_request"}
    /\ s \in {"policy_save", "policy_insert"} => op = "create_policy"
    /\ s \in {"policy_delete", "policy_remove"} => op = "delete_policy"
    /\ s = "policy_read" => op = "get_policy"
    /\ s \in {"mfa_store", "mfa_check"} => op \in MfaOps
    /\ s = "approval_create" => op = "create_approval_request"
    /\ s = "approval_read" => op = "get_approval_request"
    /\ s = "approval_approve" => op = "approve_request"
    /\ s = "approval_reject" => op = "reject_request"
    /\ s = "approval_cancel" => op = "cancel_request"
    /\ s = "service" => op \notin {"create_approval_request", "get_approval_request",
                                 "approve_request", "reject_request", "cancel_request"}
Fits(s, channel) ==
    /\ s \in {"has_permission", "validate", "lookup_key_id"} => channel = "rest"
    /\ s \in {"check_permission", "validate_with_identity"} => channel = "grpc"

\* What comes before the effects of an operation.
Guarded(p, op) ==
    /\ Behind(p, {"pbac", "own_key", "approval_create"}, Resolving)
    /\ Behind(p, {"approval_create"}, {"own_key"})
    /\ op \in SharedOps => Behind(p, {"service"}, {"pbac"}) /\ Behind(p, {"service"}, Resolving)
    /\ op \in GatedOps => Behind(p, {"service"}, {"require_approved"})
    /\ Behind(p, {"approval_approve", "approval_reject"}, {"approval_tenant"})
    /\ Behind(p, {"policy_insert"}, {"policy_save"})
    /\ Behind(p, {"policy_remove"}, {"policy_delete"})

\* What an operation does not end without.
Complete(p, channel, op) ==
    /\ op \in SharedOps => Has(p, "service")
    /\ op = "dh_derive" => Has(p, "own_key")
    /\ op = "create_policy" => Has(p, "policy_insert")
    /\ op = "delete_policy" => Has(p, "policy_remove")
    /\ Has(p, "audit") \/ Silent([channel |-> channel, op |-> op])

HandlerFor(h, channel, op) ==
    /\ h \in Seq(HandlerSteps)
    /\ \A j \in DOMAIN h : Belongs(h[j], op)
    /\ Guarded(h, op)
    /\ Complete(h, channel, op)

\* The whole program, the authentication in front of the handler included.
InOrder(p, channel, op) ==
    /\ p \in Seq(Steps)
    /\ \A j \in DOMAIN p : Belongs(p[j], op) /\ Fits(p[j], channel)
    /\ Behind(p, {"check_permission"}, {"validate_with_identity"})
    /\ Behind(p, HandlerSteps, Permitting)
    /\ Behind(p, HandlerSteps, Naming)
    /\ Behind(p, HandlerSteps, {"lookup_tenant"})
    /\ Guarded(p, op)
    /\ Complete(p, channel, op)
    /\ Has(p, IF channel = "rest" THEN "has_permission" ELSE "check_permission")

Served(channel, op) ==
    \/ channel = "rest" /\ op \in RestOps
    \/ channel = "grpc" /\ op \in SharedOps

\* The REST handlers, one by one.
LEMMA RestHandlers == \A op \in RestOps : HandlerFor(Rest[op], "rest", op)
<1>. USE DEF HandlerFor, Guarded, Complete, Has, Silent, Behind, Belongs, HandlerSteps, Resolving, Effects,
             SharedOps, GatedOps, KeyOps, NamingOps, TenantlessOps, Sm9Ops, MfaOps
<1>1. HandlerFor(rest_create_key, "rest", "create_key")
  BY DEF rest_create_key
<1>2. HandlerFor(rest_get_key, "rest", "get_key")
  BY DEF rest_get_key
<1>3. HandlerFor(rest_list_keys, "rest", "list_keys")
  BY DEF rest_list_keys
<1>4. HandlerFor(rest_encrypt, "rest", "encrypt")
  BY DEF rest_encrypt
<1>5. HandlerFor(rest_decrypt, "rest", "decrypt")
  BY DEF rest_decrypt
<1>6. HandlerFor(rest_rotate_key, "rest", "rotate_key")
  BY DEF rest_rotate_key
<1>7. HandlerFor(rest_delete_key, "rest", "delete_key")
  BY DEF rest_delete_key
<1>8. HandlerFor(rest_sign, "rest", "sign")
  BY DEF rest_sign
<1>9. HandlerFor(rest_verify, "rest", "verify")
  BY DEF rest_verify
<1>10. HandlerFor(rest_hmac, "rest", "hmac")
  BY DEF rest_hmac
<1>11. HandlerFor(rest_hmac_verify, "rest", "hmac_verify")
  BY DEF rest_hmac_verify
<1>12. HandlerFor(rest_hash, "rest", "hash")
  BY DEF rest_hash
<1>13. HandlerFor(rest_envelope_encrypt, "rest", "envelope_encrypt")
  BY DEF rest_envelope_encrypt
<1>14. HandlerFor(rest_envelope_decrypt, "rest", "envelope_decrypt")
  BY DEF rest_envelope_decrypt
<1>15. HandlerFor(rest_envelope_rewrap, "rest", "envelope_rewrap")
  BY DEF rest_envelope_rewrap
<1>16. HandlerFor(rest_dh_derive, "rest", "dh_derive")
  BY DEF rest_dh_derive
<1>17. HandlerFor(rest_import_key, "rest", "import_key")
  BY DEF rest_import_key
<1>18. HandlerFor(rest_export_key, "rest", "export_key")
  BY DEF rest_export_key
<1>19. HandlerFor(rest_sm9_sign, "rest", "sm9_sign")
  BY DEF rest_sm9_sign
<1>20. HandlerFor(rest_sm9_verify, "rest", "sm9_verify")
  BY DEF rest_sm9_verify
<1>21. HandlerFor(rest_sm9_encrypt, "rest", "sm9_encrypt")
  BY DEF rest_sm9_encrypt
<1>22. HandlerFor(rest_sm9_decrypt, "rest", "sm9_decrypt")
  BY DEF rest_sm9_decrypt
<1>23. HandlerFor(rest_query_audit_events, "rest", "query_audit_events")
  BY DEF rest_query_audit_events
<1>24. HandlerFor(rest_metrics, "rest", "metrics")
  BY DEF rest_metrics
<1>25. HandlerFor(rest_mfa_setup, "rest", "mfa_setup")
  BY DEF rest_mfa_setup
<1>26. HandlerFor(rest_mfa_verify, "rest", "mfa_verify")
  BY DEF rest_mfa_verify
<1>27. HandlerFor(rest_mfa_verify_backup, "rest", "mfa_verify_backup")
  BY DEF rest_mfa_verify_backup
<1>28. HandlerFor(rest_mfa_status, "rest", "mfa_status")
  BY DEF rest_mfa_status
<1>29. HandlerFor(rest_create_policy, "rest", "create_policy")
  BY DEF rest_create_policy
<1>30. HandlerFor(rest_get_policy, "rest", "get_policy")
  BY DEF rest_get_policy
<1>31. HandlerFor(rest_list_policies, "rest", "list_policies")
  BY DEF rest_list_policies
<1>32. HandlerFor(rest_delete_policy, "rest", "delete_policy")
  BY DEF rest_delete_policy
<1>33. HandlerFor(rest_create_approval_request, "rest", "create_approval_request")
  BY DEF rest_create_approval_request
<1>34. HandlerFor(rest_list_pending_approvals, "rest", "list_pending_approvals")
  BY DEF rest_list_pending_approvals
<1>35. HandlerFor(rest_get_approval_request, "rest", "get_approval_request")
  BY DEF rest_get_approval_request
<1>36. HandlerFor(rest_approve_request, "rest", "approve_request")
  BY DEF rest_approve_request
<1>37. HandlerFor(rest_reject_request, "rest", "reject_request")
  BY DEF rest_reject_request
<1>38. HandlerFor(rest_cancel_request, "rest", "cancel_request")
  BY DEF rest_cancel_request
<1>. HIDE DEF HandlerFor
<1>. QED
  BY <1>1, <1>2, <1>3, <1>4, <1>5, <1>6, <1>7, <1>8, <1>9, <1>10, <1>11, <1>12, <1>13, <1>14,
     <1>15, <1>16, <1>17, <1>18, <1>19, <1>20, <1>21, <1>22, <1>23, <1>24, <1>25, <1>26, <1>27,
     <1>28, <1>29, <1>30, <1>31, <1>32, <1>33, <1>34, <1>35, <1>36, <1>37, <1>38
  DEF Rest, RestOps, MfaOps, PolicyOps, ApprovalOps

\* The gRPC handlers, one by one.
LEMMA GrpcHandlers == \A op \in SharedOps : HandlerFor(Grpc[op].steps, "grpc", op)
<1>. USE DEF Handler, HandlerFor, Guarded, Complete, Has, Silent, Behind, Belongs, HandlerSteps, Resolving, Effects,
             SharedOps, GatedOps, KeyOps, NamingOps, TenantlessOps, Sm9Ops, MfaOps
<1>1. HandlerFor(grpc_create_key.steps, "grpc", "create_key")
  BY DEF grpc_create_key
<1>2. HandlerFor(grpc_get_key.steps, "grpc", "get_key")
  BY DEF grpc_get_key
<1>3. HandlerFor(grpc_list_keys.steps, "grpc", "list_keys")
  BY DEF grpc_list_keys
<1>4. HandlerFor(grpc_encrypt.steps, "grpc", "encrypt")
  BY DEF grpc_encrypt
<1>5. HandlerFor(grpc_decrypt.steps, "grpc", "decrypt")
  BY DEF grpc_decrypt
<1>6. HandlerFor(grpc_rotate_key.steps, "grpc", "rotate_key")
  BY DEF grpc_rotate_key
<1>7. HandlerFor(grpc_delete_key.steps, "grpc", "delete_key")
  BY DEF grpc_delete_key
<1>8. HandlerFor(grpc_sign.steps, "grpc", "sign")
  BY DEF grpc_sign
<1>9. HandlerFor(grpc_verify.steps, "grpc", "verify")
  BY DEF grpc_verify
<1>10. HandlerFor(grpc_hmac.steps, "grpc", "hmac")
  BY DEF grpc_hmac
<1>11. HandlerFor(grpc_hmac_verify.steps, "grpc", "hmac_verify")
  BY DEF grpc_hmac_verify
<1>12. HandlerFor(grpc_sm9_sign.steps, "grpc", "sm9_sign")
  BY DEF grpc_sm9_sign
<1>13. HandlerFor(grpc_sm9_verify.steps, "grpc", "sm9_verify")
  BY DEF grpc_sm9_verify
<1>14. HandlerFor(grpc_sm9_encrypt.steps, "grpc", "sm9_encrypt")
  BY DEF grpc_sm9_encrypt
<1>15. HandlerFor(grpc_sm9_decrypt.steps, "grpc", "sm9_decrypt")
  BY DEF grpc_sm9_decrypt
<1>16. HandlerFor(grpc_envelope_encrypt.steps, "grpc", "envelope_encrypt")
  BY DEF grpc_envelope_encrypt
<1>17. HandlerFor(grpc_envelope_decrypt.steps, "grpc", "envelope_decrypt")
  BY DEF grpc_envelope_decrypt
<1>18. HandlerFor(grpc_envelope_rewrap.steps, "grpc", "envelope_rewrap")
  BY DEF grpc_envelope_rewrap
<1>19. HandlerFor(grpc_import_key.steps, "grpc", "import_key")
  BY DEF grpc_import_key
<1>20. HandlerFor(grpc_export_key.steps, "grpc", "export_key")
  BY DEF grpc_export_key
<1>21. HandlerFor(grpc_hash.steps, "grpc", "hash")
  BY DEF grpc_hash
<1>22. HandlerFor(grpc_dh_derive.steps, "grpc", "dh_derive")
  BY DEF grpc_dh_derive
<1>23. HandlerFor(grpc_query_audit_events.steps, "grpc", "query_audit_events")
  BY DEF grpc_query_audit_events
<1>. HIDE DEF HandlerFor, Handler
<1>. QED
  BY <1>1, <1>2, <1>3, <1>4, <1>5, <1>6, <1>7, <1>8, <1>9, <1>10, <1>11, <1>12, <1>13, <1>14,
     <1>15, <1>16, <1>17, <1>18, <1>19, <1>20, <1>21, <1>22, <1>23
  DEF Grpc

\* Steps in front of a handler add to what is behind its steps.
LEMMA Prefixed ==
    ASSUME NEW a \in Seq(AuthSteps), NEW h \in Seq(HandlerSteps), NEW s, NEW t,
           Behind(a, s, t), Behind(h, s, t) \/ \E i \in DOMAIN a : a[i] \in t
    PROVE  Behind(a \o h, s, t)
<1>1. PICK p : p = a \o h
  OBVIOUS
<1>2. a \in Seq(Steps) /\ h \in Seq(Steps)
  BY DEF Steps
<1>3. /\ Len(a) \in Nat /\ Len(h) \in Nat /\ DOMAIN a = 1..Len(a) /\ DOMAIN h = 1..Len(h)
      /\ DOMAIN p = 1..(Len(a) + Len(h))
  BY <1>1, <1>2, ConcatProperties, LenProperties
<1>4. \A i \in DOMAIN p : p[i] = IF i <= Len(a) THEN a[i] ELSE h[i - Len(a)]
  BY <1>1, <1>2, <1>3, ConcatProperties
<1>. SUFFICES ASSUME NEW j \in DOMAIN p, p[j] \in s
              PROVE  \E i \in DOMAIN p : i < j /\ p[i] \in t
  BY <1>1 DEF Behind
<1>5. CASE j <= Len(a)
  <2>1. PICK i \in DOMAIN a : i < j /\ a[i] \in t
    BY <1>3, <1>4, <1>5 DEF Behind
  <2>. QED BY <1>3, <1>4, <1>5, <2>1
<1>6. CASE j > Len(a) /\ Behind(h, s, t)
  <2>1. j - Len(a) \in DOMAIN h /\ h[j - Len(a)] \in s
    BY <1>3, <1>4, <1>6
  <2>2. PICK i \in DOMAIN h : i < j - Len(a) /\ h[i] \in t
    BY <1>6, <2>1 DEF Behind
  <2>3. i + Len(a) \in DOMAIN p /\ p[i + Len(a)] = h[i]
    BY <1>3, <1>4, <2>2
  <2>. QED BY <1>3, <2>2, <2>3
<1>7. CASE j > Len(a) /\ \E i \in DOMAIN a : a[i] \in t
  BY <1>3, <1>4, <1>7
<1>. QED BY <1>3, <1>5, <1>6, <1>7

\* Every program has the authentication, the policy, the approval and the tenant
\* behind the steps that need them.
LEMMA Programs ==
    ASSUME NEW channel, NEW op, Served(channel, op)
    PROVE  InOrder(Program(channel, op), channel, op)
<1>. DEFINE gate == IF channel = "rest" THEN "has_permission" ELSE "check_permission"
            Front(a) ==
         /\ a \in Seq(AuthSteps)
         /\ \A j \in DOMAIN a : Belongs(a[j], op) /\ Fits(a[j], channel)
         /\ Behind(a, {"check_permission"}, {"validate_with_identity"})
         /\ \E i \in DOMAIN a : a[i] \in Permitting
         /\ \E i \in DOMAIN a : a[i] \in Naming
         /\ \E i \in DOMAIN a : a[i] \in {"lookup_tenant"}
         /\ Has(a, gate)
<1>1. ASSUME NEW a, NEW h, Front(a), HandlerFor(h, channel, op)
      PROVE  InOrder(a \o h, channel, op)
  <2>. HIDE DEF gate
  <2>1. a \in Seq(AuthSteps) /\ h \in Seq(HandlerSteps)
    BY <1>1 DEF HandlerFor
  <2>2. a \in Seq(Steps) /\ h \in Seq(Steps)
    BY <2>1 DEF Steps
  <2>3. \A j \in DOMAIN a : a[j] \notin HandlerSteps
    BY <2>1 DEF AuthSteps, HandlerSteps, Naming, Permitting, Resolving, Effects
  <2>4. \A j \in DOMAIN h : h[j] \notin AuthSteps
    BY <2>1 DEF AuthSteps, HandlerSteps, Naming, Permitting, Resolving, Effects
  <2>5. PICK p : p = a \o h
    OBVIOUS
  <2>6. /\ p \in Seq(Steps) /\ Len(p) = Len(a) + Len(h)
        /\ \A i \in 1..Len(p) : p[i] = IF i <= Len(a) THEN a[i] ELSE h[i - Len(a)]
    BY <2>2, <2>5, ConcatProperties
  <2>7. /\ DOMAIN p = 1..Len(p) /\ DOMAIN a = 1..Len(a) /\ DOMAIN h = 1..Len(h)
        /\ Len(a) \in Nat /\ Len(h) \in Nat
    BY <2>2, <2>6, LenProperties
  <2>8. \A j \in DOMAIN p : Belongs(p[j], op) /\ Fits(p[j], channel)
    <3>. SUFFICES ASSUME NEW j \in DOMAIN p
                  PROVE  Belongs(p[j], op) /\ Fits(p[j], channel)
      OBVIOUS
    <3>1. CASE j <= Len(a)
      BY <1>1, <2>6, <2>7, <3>1
    <3>2. CASE j > Len(a)
      <4>1. j - Len(a) \in DOMAIN h /\ p[j] = h[j - Len(a)]
        BY <2>6, <2>7, <3>2
      <4>2. p[j] \notin AuthSteps
        BY <2>4, <4>1
      <4>. QED BY <1>1, <4>1, <4>2 DEF HandlerFor, Fits, AuthSteps, Naming, Permitting
    <3>. QED BY <2>7, <3>1, <3>2
  <2>9. \A s : (Has(a, s) => Has(p, s)) /\ (Has(h, s) => Has(p, s))
    <3>1. ASSUME NEW i \in DOMAIN a
          PROVE  i \in DOMAIN p /\ p[i] = a[i]
      BY <2>6, <2>7
    <3>2. ASSUME NEW i \in DOMAIN h
          PROVE  i + Len(a) \in DOMAIN p /\ p[i + Len(a)] = h[i]
      BY <2>6, <2>7
    <3>. QED BY <3>1, <3>2 DEF Has
  <2>10. Complete(p, channel, op)
    BY <1>1, <2>9 DEF HandlerFor, Complete
  <2>11. \A s, t : s \subseteq HandlerSteps => Behind(a, s, t)
    BY <2>3 DEF Behind
  <2>12. \A s, t : s \subseteq AuthSteps => Behind(h, s, t)
    BY <2>4 DEF Behind
  <2>13. /\ Behind(p, HandlerSteps, Permitting)
         /\ Behind(p, HandlerSteps, Naming)
         /\ Behind(p, HandlerSteps, {"lookup_tenant"})
    BY <1>1, <2>1, <2>5, <2>11, Prefixed
  <2>14. Behind(p, {"check_permission"}, {"validate_with_identity"})
    <3>1. {"check_permission"} \subseteq AuthSteps
      BY DEF AuthSteps, Permitting
    <3>. QED BY <1>1, <2>1, <2>5, <2>12, <3>1, Prefixed
  <2>15. ASSUME NEW s \in SUBSET HandlerSteps, NEW t, Behind(h, s, t)
         PROVE  Behind(p, s, t)
    BY <2>1, <2>5, <2>11, <2>15, Prefixed
  <2>16. \A s \in {{"pbac", "own_key", "approval_create"}, {"approval_create"}, {"service"}, {"approval_approve", "approval_reject"},
                  {"policy_insert"}, {"policy_remove"}} : s \in SUBSET HandlerSteps
    BY DEF HandlerSteps, Effects
  <2>17. Guarded(p, op)
    BY <1>1, <2>15, <2>16 DEF HandlerFor, Guarded
  <2>18. Has(p, gate)
    BY <1>1, <2>9
  <2>. QED BY <2>5, <2>6, <2>8, <2>10, <2>13, <2>14, <2>17, <2>18 DEF InOrder, gate
<1>2. channel = "rest" => Front(auth_middleware)
  BY DEF auth_middleware, AuthSteps, Naming, Permitting, Belongs, Fits, Behind, Has, Effects
<1>3. channel = "grpc" /\ op \in SharedOps => Front(interceptor)
  BY DEF interceptor, AuthSteps, Naming, Permitting, Belongs, Fits, Behind, Has, Effects
<1>. HIDE DEF Front
<1>. QED BY <1>1, <1>2, <1>3, RestHandlers, GrpcHandlers DEF Served, Program

-----------------------------------------------------------------------------
(* A request at its next shared step.                                      *)

\* A set of natural numbers that is not empty has a least element.
LEMMA Least ==
    ASSUME NEW T, T \subseteq Nat, T # {}
    PROVE  \E x \in T : \A y \in T : x <= y
<1>1. PICK R : R = OpToRel(<, Nat)
  OBVIOUS
<1>2. IsWellFoundedOn(R, Nat)
  BY <1>1, NatLessThanWellFounded
<1>3. PICK x \in T : \A y \in T : <<y, x>> \notin R
  BY <1>2, WFMin
<1>4. \A y, z \in Nat : y < z => <<y, z>> \in R
  BY <1>1 DEF OpToRel
<1>5. \A y \in T : ~(y < x)
  BY <1>3, <1>4
<1>. QED BY <1>5

\* The local steps of a request come before its next shared one.
LEMMA LocalFirst ==
    ASSUME NEW r, r.todo \in Seq(Steps)
    PROVE  /\ Next1(r) \in 1..(Len(r.todo) + 1)
           /\ Next1(r) = Len(r.todo) + 1 \/ r.todo[Next1(r)] \notin Local
           /\ \A j \in 1..(Next1(r) - 1) : r.todo[j] \in Local
<1>1. PICK n \in Nat : n = Len(r.todo)
  BY LenProperties
<1>. DEFINE T == {i \in 1..(n + 1) : i = n + 1 \/ r.todo[i] \notin Local}
<1>2. n + 1 \in T /\ T \subseteq Nat
  BY <1>1
<1>3. PICK i \in T : \A y \in T : i <= y
  BY <1>2, Least
<1>4. i \in 1..(Len(r.todo) + 1) /\ (i = Len(r.todo) + 1 \/ r.todo[i] \notin Local)
  BY <1>1, <1>3
<1>5. \A j \in 1..(i - 1) : r.todo[j] \in Local
  BY <1>1, <1>3
<1>. QED BY <1>4, <1>5 DEF Next1

-----------------------------------------------------------------------------
(* The credentials: which there are never changes, only whether they are   *)
(* usable does.                                                            *)

CredShape == [id : STRING, secret : STRING, role : Roles, tenant : STRING, revoked : BOOLEAN,
              expiry : {"never", "set", "reached"}, locked : BOOLEAN, failed : Nat]

Credentials ==
    /\ creds \in [DOMAIN Declared -> CredShape]
    /\ \A i \in DOMAIN Declared :
         /\ creds[i].id = Declared[i].id
         /\ creds[i].secret = Declared[i].secret
         /\ creds[i].role = Declared[i].role
         /\ creds[i].tenant = Declared[i].tenant

\* The credential a secret belongs to.
Issued(s) == \E i \in DOMAIN Declared : Declared[i].secret = s
Of(s) == CHOOSE i \in DOMAIN Declared : Declared[i].secret = s
IdOf(s) == Declared[Of(s)].id
RoleOf(s) == Declared[Of(s)].role
BoundOf(s) == Declared[Of(s)].tenant

\* The tenant a request acts for.
TenantFor(r) ==
    IF BoundOf(r.secret) # Unbound THEN BoundOf(r.secret)
    ELSE IF r.op \in TenantlessOps THEN "" ELSE r.self

\* The record of a declared key.
LEMMA Declaration ==
    /\ DOMAIN Declared \subseteq Nat
    /\ \A i \in DOMAIN Declared :
         /\ Declared[i].id \in STRING /\ Declared[i].secret \in STRING
         /\ Declared[i].role \in Roles /\ Declared[i].tenant \in STRING
<1>1. Declared \in Seq([id : STRING, secret : STRING, role : Roles, tenant : STRING])
  BY DeclaredAssumption
<1>2. DOMAIN Declared = 1..Len(Declared) /\ Len(Declared) \in Nat
  BY <1>1, LenProperties
<1>3. \A i \in DOMAIN Declared : Declared[i] \in [id : STRING, secret : STRING, role : Roles, tenant : STRING]
  BY <1>1, <1>2, ElementOfSeq
<1>. QED BY <1>2, <1>3

\* A secret finds its one credential, in every lookup.
LEMMA Holder ==
    ASSUME Credentials, NEW s, Issued(s)
    PROVE  /\ Of(s) \in DOMAIN creds /\ creds[Of(s)] \in CredShape /\ WithSecret(s) = {Of(s)}
           /\ creds[Of(s)].id = IdOf(s) /\ creds[Of(s)].role = RoleOf(s) /\ creds[Of(s)].tenant = BoundOf(s)
           /\ lookup_key_id(s) = {IdOf(s)} /\ lookup_tenant(s) = {BoundOf(s)}
           /\ validate(s) = IF Usable(creds[Of(s)]) THEN {creds[Of(s)]} ELSE {}
<1>1. PICK i \in DOMAIN Declared : i = Of(s) /\ Declared[i].secret = s
  BY DEF Issued, Of
<1>2. \A j \in DOMAIN Declared : Declared[j].secret = s => j = i
  BY <1>1, DeclaredAssumption
<1>3. DOMAIN creds = DOMAIN Declared /\ i \in Nat /\ creds[i] \in CredShape
  BY <1>1, Declaration DEF Credentials
<1>4. WithSecret(s) = {i}
  BY <1>1, <1>2, <1>3 DEF WithSecret, Credentials
<1>5. creds[i].id = IdOf(s) /\ creds[i].role = RoleOf(s) /\ creds[i].tenant = BoundOf(s)
  BY <1>1 DEF Credentials, IdOf, RoleOf, BoundOf
<1>6. FirstOf({i}) = {i} /\ FirstOf({}) = {}
  BY <1>3 DEF FirstOf
<1>7. lookup_key_id(s) = {IdOf(s)} /\ lookup_tenant(s) = {BoundOf(s)}
  BY <1>4, <1>5, <1>6 DEF lookup_key_id, lookup_tenant
<1>8. validate(s) = IF Usable(creds[i]) THEN {creds[i]} ELSE {}
  <2>1. CASE Usable(creds[i])
    <3>1. {j \in WithSecret(s) : Usable(creds[j])} = {i}
      BY <1>4, <2>1
    <3>. QED BY <1>6, <2>1, <3>1 DEF validate
  <2>2. CASE ~Usable(creds[i])
    <3>1. {j \in WithSecret(s) : Usable(creds[j])} = {}
      BY <1>4, <2>2
    <3>. QED BY <1>6, <2>2, <3>1 DEF validate
  <2>. QED BY <2>1, <2>2
<1>. QED BY <1>1, <1>3, <1>4, <1>5, <1>7, <1>8

\* A secret nobody was issued validates nothing.
LEMMA Stranger ==
    ASSUME Credentials, NEW s, ~Issued(s)
    PROVE  WithSecret(s) = {} /\ validate(s) = {}
<1>1. WithSecret(s) = {}
  BY DEF Credentials, Issued, WithSecret
<1>. QED BY <1>1 DEF validate, FirstOf

\* The tenant the specification speaks of is the one of the declaration.
LEMMA ActsFor ==
    ASSUME Credentials, NEW r, Issued(r.secret)
    PROVE  Credential(r) = {creds[Of(r.secret)]} /\ TenantOf(r) = TenantFor(r)
<1>1. Credential(r) = {creds[Of(r.secret)]}
  BY Holder DEF Credential
<1>. QED BY <1>1, Holder DEF TenantOf, TenantFor

\* No step adds a credential, or changes its id, secret, role or tenant.
LEMMA CredentialsStep ==
    ASSUME Credentials, [KmsNext]_kmsVars
    PROVE  Credentials'
<1>1. ASSUME NEW i \in DOMAIN creds, NEW b \in BOOLEAN, creds' = [creds EXCEPT ![i].locked = b]
      PROVE  Credentials'
  BY <1>1 DEF Credentials, CredShape
<1>2. CASE UNCHANGED creds
  BY <1>2 DEF Credentials
<1>3. ASSUME NEW c \in Clients, MfaCheck(c)
      PROVE  Credentials'
  BY <1>1, <1>2, <1>3 DEF MfaCheck, lock_key_by_id, Lock, FirstOf, WithId
<1>4. CASE Lapse
  BY <1>1, <1>2, <1>4 DEF Lapse, LockLapses
<1>5. CASE Restart
  <2>1. creds' = [i \in DOMAIN Declared |->
                    NewKey(Declared[i].id, Declared[i].secret, Declared[i].role, Declared[i].tenant)]
    BY <1>5 DEF Restart
  <2>. QED BY <2>1, Declaration DEF Credentials, CredShape, NewKey
<1>. QED
  BY <1>2, <1>3, <1>4, <1>5
  DEF KmsNext, kmsVars, credVars, Arrive, Refuse, Check, Serve, ChangePolicy, ChangeApproval, HangUp

-----------------------------------------------------------------------------
(* The permissions.                                                        *)

\* The two channels ask for permissions that the same roles have.
LEMMA Permissions ==
    ASSUME NEW op \in SharedOps, NEW role \in Roles
    PROVE  satisfies(role, create_routes(op)) <=> satisfies(role, Grpc[op].permission)
<1>. USE DEF policy_routes
<1>. DEFINE Listing == {"LIST_KEYS", "GET_KEY"}
            Using == {"ENCRYPT", "DECRYPT", "SIGN", "VERIFY", "HASH"}
            Auditing == {"VIEW_AUDIT"}
<1>1. role \in {"ReadOnly", "Operator", "KeyAdmin", "SecurityOfficer", "AuditAdmin", "TenantAdmin"}
  BY DEF Roles, permissions
<1>2. /\ permissions["ReadOnly"] = ReadPermissions
      /\ permissions["Operator"] = ReadPermissions \cup CryptoPermissions
      /\ permissions["KeyAdmin"] = ReadPermissions \cup CryptoPermissions \cup LifecyclePermissions
      /\ permissions["SecurityOfficer"] = ReadPermissions \cup (AdminPermissions \ {"EXPORT_AUDIT"})
      /\ permissions["AuditAdmin"] = {"VIEW_AUDIT", "EXPORT_AUDIT"}
      /\ permissions["TenantAdmin"] = ReadPermissions \cup {"APPROVE_ACTION"}
  BY DEF permissions
<1>3. \A p \in Listing : p # "" /\ (p \in permissions[role] <=> role # "AuditAdmin")
  BY <1>1, <1>2 DEF ReadPermissions, CryptoPermissions, LifecyclePermissions, AdminPermissions
<1>4. \A p \in Using : p # "" /\ (p \in permissions[role] <=> role \in {"Operator", "KeyAdmin"})
  BY <1>1, <1>2 DEF ReadPermissions, CryptoPermissions, LifecyclePermissions, AdminPermissions
<1>5. \A p \in LifecyclePermissions : p # "" /\ (p \in permissions[role] <=> role = "KeyAdmin")
  BY <1>1, <1>2 DEF ReadPermissions, CryptoPermissions, LifecyclePermissions, AdminPermissions
<1>. DEFINE Asks(o, set) == create_routes(o) \in set /\ Grpc[o].permission \in set
<1>6. \A o \in {"create_key", "rotate_key", "delete_key", "import_key", "export_key"} : Asks(o, LifecyclePermissions)
  BY DEF create_routes, KeyOps, NamingOps, GatedOps, Sm9Ops, PolicyOps, MfaOps, LifecyclePermissions,
         Grpc, Handler,
         grpc_create_key, grpc_rotate_key, grpc_delete_key, grpc_import_key, grpc_export_key
<1>7. \A o \in {"get_key", "list_keys"} : Asks(o, Listing)
  BY DEF create_routes, KeyOps, NamingOps, GatedOps, Sm9Ops, PolicyOps, MfaOps, LifecyclePermissions,
         Grpc, Handler,
         grpc_get_key, grpc_list_keys
<1>8. \A o \in {"encrypt", "decrypt", "sign", "verify", "hmac", "hmac_verify", "sm9_sign",
                "sm9_verify", "sm9_encrypt", "sm9_decrypt", "envelope_encrypt", "envelope_decrypt",
                "envelope_rewrap", "hash", "dh_derive"} : Asks(o, Using)
  BY DEF create_routes, KeyOps, NamingOps, GatedOps, Sm9Ops, PolicyOps, MfaOps, LifecyclePermissions,
         Grpc, Handler,
         grpc_encrypt, grpc_decrypt, grpc_sign, grpc_verify, grpc_hmac, grpc_hmac_verify,
         grpc_sm9_sign, grpc_sm9_verify, grpc_sm9_encrypt, grpc_sm9_decrypt, grpc_envelope_encrypt, grpc_envelope_decrypt,
         grpc_envelope_rewrap, grpc_hash, grpc_dh_derive
<1>9. \A o \in {"query_audit_events"} : Asks(o, Auditing)
  BY DEF create_routes, KeyOps, NamingOps, GatedOps, Sm9Ops, PolicyOps, MfaOps, LifecyclePermissions,
         Grpc, Handler,
         grpc_query_audit_events
<1>. HIDE DEF Asks, Listing, Using, Auditing
<1>10. \E set \in {Listing, Using, LifecyclePermissions, Auditing} : Asks(op, set)
  BY <1>6, <1>7, <1>8, <1>9
  DEF SharedOps, KeyOps, NamingOps, TenantlessOps, Sm9Ops
<1>11. \A set \in {Listing, Using, LifecyclePermissions, Auditing} : \A p, q \in set :
         satisfies(role, p) <=> satisfies(role, q)
  <2>1. \A p, q \in Listing : satisfies(role, p) <=> satisfies(role, q)
    BY <1>3 DEF satisfies
  <2>2. \A p, q \in Using : satisfies(role, p) <=> satisfies(role, q)
    BY <1>4 DEF satisfies
  <2>3. \A p, q \in LifecyclePermissions : satisfies(role, p) <=> satisfies(role, q)
    BY <1>5 DEF satisfies
  <2>4. \A p, q \in Auditing : satisfies(role, p) <=> satisfies(role, q)
    BY DEF Auditing
  <2>. QED BY <2>1, <2>2, <2>3, <2>4
<1>. QED BY <1>10, <1>11 DEF Asks

\* What only REST serves is reached through the route of its permission.
LEMMA Routed ==
    ASSUME NEW op \in RestOps, NEW role \in Roles, satisfies(role, create_routes(op))
    PROVE  satisfies(role, Needs(op))
<1>. DEFINE deciding == {"list_pending_approvals", "approve_request", "reject_request"}
            asking == {"create_approval_request", "get_approval_request", "cancel_request"}
<1>1. CASE op \in SharedOps
  <2>1. op \notin PolicyOps /\ op \notin MfaOps /\ op \notin deciding /\ op \notin asking /\ op # "metrics"
    BY <1>1 DEF SharedOps, KeyOps, NamingOps, TenantlessOps, Sm9Ops, PolicyOps, MfaOps
  <2>2. Needs(op) = Grpc[op].permission
    BY <1>1, <2>1 DEF Needs
  <2>. QED BY <1>1, <2>2, Permissions
<1>2. CASE op \in PolicyOps
  <2>1. create_routes(op) = "MANAGE_POLICY"
    BY <1>2 DEF create_routes, policy_routes, GatedOps, KeyOps, NamingOps, Sm9Ops, PolicyOps, MfaOps
  <2>2. op \notin SharedOps /\ op \notin MfaOps /\ op \notin deciding /\ op \notin asking /\ op # "metrics"
    BY <1>2 DEF SharedOps, KeyOps, NamingOps, TenantlessOps, Sm9Ops, PolicyOps, MfaOps
  <2>3. Needs(op) = "MANAGE_POLICY"
    BY <1>2, <2>2 DEF Needs
  <2>. QED BY <2>1, <2>3
<1>3. CASE op \in MfaOps
  <2>1. create_routes(op) = "MANAGE_MFA"
    BY <1>3 DEF create_routes, GatedOps, KeyOps, NamingOps, Sm9Ops, PolicyOps, MfaOps
  <2>2. op \notin SharedOps /\ op \notin PolicyOps /\ op \notin deciding /\ op \notin asking /\ op # "metrics"
    BY <1>3 DEF SharedOps, KeyOps, NamingOps, TenantlessOps, Sm9Ops, PolicyOps, MfaOps
  <2>3. Needs(op) = "MANAGE_MFA"
    BY <1>3, <2>2 DEF Needs
  <2>. QED BY <2>1, <2>3
<1>4. CASE op \in deciding
  <2>1. create_routes(op) = "APPROVE_ACTION"
    BY <1>4 DEF create_routes, GatedOps, KeyOps, NamingOps, Sm9Ops, PolicyOps, MfaOps
  <2>2. op \notin SharedOps /\ op \notin PolicyOps /\ op \notin MfaOps /\ op \notin asking /\ op # "metrics"
    BY <1>4 DEF SharedOps, KeyOps, NamingOps, TenantlessOps, Sm9Ops, PolicyOps, MfaOps
  <2>3. Needs(op) = "APPROVE_ACTION"
    BY <1>4, <2>2 DEF Needs
  <2>. QED BY <2>1, <2>3
<1>5. CASE op \in asking
  <2>1. create_routes(op) = "LIST_KEYS"
    BY <1>5 DEF create_routes, AUTHENTICATED, GatedOps, KeyOps, NamingOps, Sm9Ops, PolicyOps, MfaOps
  <2>2. op \notin SharedOps /\ op \notin PolicyOps /\ op \notin MfaOps /\ op \notin deciding /\ op # "metrics"
    BY <1>5 DEF SharedOps, KeyOps, NamingOps, TenantlessOps, Sm9Ops, PolicyOps, MfaOps
  <2>3. Needs(op) = "LIST_KEYS"
    BY <1>5, <2>2 DEF Needs
  <2>. QED BY <2>1, <2>3
<1>6. CASE op = "metrics"
  <2>1. op \notin SharedOps /\ op \notin PolicyOps /\ op \notin MfaOps /\ op \notin deciding /\ op \notin asking
    BY <1>6 DEF SharedOps, KeyOps, NamingOps, TenantlessOps, Sm9Ops, PolicyOps, MfaOps
  <2>2. Needs(op) = ""
    BY <1>6, <2>1 DEF Needs
  <2>. QED BY <2>2 DEF satisfies
<1>. QED BY <1>1, <1>2, <1>3, <1>4, <1>5, <1>6 DEF RestOps, ApprovalOps

-----------------------------------------------------------------------------
(* What the steps do to a request.                                         *)

Fields == {"at", "channel", "op", "secret", "self", "key", "policy", "gated", "approval", "todo",
           "id", "bound", "role", "tenant", "effect", "owner", "audited"}

\* What the caller sent stays.
Kept(g, r) ==
    /\ DOMAIN g = Fields
    /\ g.channel = r.channel /\ g.op = r.op /\ g.secret = r.secret /\ g.self = r.self /\ g.key = r.key
    /\ g.policy = r.policy /\ g.gated = r.gated /\ g.approval = r.approval

\* A request is made of these fields, from its arrival.
LEMMA RequestIs ==
    ASSUME NEW q
    PROVE  LET g == Request(q) IN
           /\ DOMAIN g = Fields /\ g.at = "run" /\ g.channel = q.channel /\ g.op = q.op
           /\ g.todo = Program(q.channel, q.op) /\ g.policy = q.policy
           /\ g.effect = FALSE /\ g.audited = FALSE
  BY DEF Request, Fields

\* One that has ended keeps nothing.
LEMMA EndedIs ==
    ASSUME NEW at
    PROVE  /\ DOMAIN Ended(at) = Fields /\ Ended(at).at = at /\ Ended(at).effect = FALSE
           /\ Ended(at).op = "metrics"
  BY DEF Ended, Fields

\* What is left of one that was refused or dropped.
BrokenAs(g, r, at) ==
    /\ DOMAIN g = Fields /\ g.at = at
    /\ r.effect \/ r.op \in PolicyOps => Kept(g, r) /\ g.effect = r.effect /\ g.owner = r.owner
    /\ ~(r.effect \/ r.op \in PolicyOps) => g.effect = FALSE /\ g.op = "metrics"

\* It keeps its effect, and which policy it was about.
LEMMA BrokenIs ==
    ASSUME NEW r, DOMAIN r = Fields, NEW at
    PROVE  BrokenAs(Broken(r, at), r, at)
<1>1. CASE r.effect \/ r.op \in PolicyOps
  BY <1>1 DEF BrokenAs, Broken, Fields, Kept
<1>2. CASE ~(r.effect \/ r.op \in PolicyOps)
  BY <1>2, EndedIs DEF BrokenAs, Broken
<1>. QED BY <1>1, <1>2

\* The local steps set the id, the key's tenant and the tenant acted for.
LocalisedAs(g, r, S) ==
    /\ Kept(g, r) /\ g.at = r.at /\ g.todo = r.todo /\ g.role = r.role
    /\ g.effect = r.effect /\ g.owner = r.owner /\ g.audited = r.audited
    /\ g.id = IF "lookup_key_id" \in S THEN TheOnly(lookup_key_id(r.secret), "unknown") ELSE r.id
    /\ g.bound = IF "lookup_tenant" \in S THEN TheOnly(lookup_tenant(r.secret), Unbound) ELSE r.bound
    /\ S \cap {"resolve", "resolve_strict"} # {} /\ "tenantless" \notin S =>
         g.tenant = resolve_tenant(g.bound, r.self)
    /\ S \cap {"resolve", "resolve_strict"} = {} /\ "tenantless" \in S =>
         g.tenant = IF g.bound = Unbound THEN "" ELSE g.bound
    /\ S \cap Resolving = {} => g.tenant = r.tenant

\* The local steps do.
LEMMA LocalisedIs ==
    ASSUME NEW r, DOMAIN r = Fields, NEW S
    PROVE  LocalisedAs(Localised(r, S), r, S)
<1>. DEFINE id == IF "lookup_key_id" \in S THEN TheOnly(lookup_key_id(r.secret), "unknown") ELSE r.id
            bound == IF "lookup_tenant" \in S THEN TheOnly(lookup_tenant(r.secret), Unbound) ELSE r.bound
            tenant == CASE S \cap {"resolve", "resolve_strict"} # {} -> resolve_tenant(bound, r.self)
                        [] "tenantless" \in S -> IF bound = Unbound THEN "" ELSE bound
                        [] OTHER -> r.tenant
<1>4. Localised(r, S) = [r EXCEPT !.id = id, !.bound = bound, !.tenant = tenant]
  BY Zenon DEF Localised
<1>1. id = IF "lookup_key_id" \in S THEN TheOnly(lookup_key_id(r.secret), "unknown") ELSE r.id
  OBVIOUS
<1>2. bound = IF "lookup_tenant" \in S THEN TheOnly(lookup_tenant(r.secret), Unbound) ELSE r.bound
  OBVIOUS
<1>. DEFINE resolves == S \cap {"resolve", "resolve_strict"} # {}
<1>3. /\ resolves /\ "tenantless" \notin S => tenant = resolve_tenant(bound, r.self)
      /\ ~resolves /\ "tenantless" \in S => tenant = IF bound = Unbound THEN "" ELSE bound
      /\ ~resolves /\ "tenantless" \notin S => tenant = r.tenant
  <2>. HIDE DEF bound, resolves
  <2>1. CASE resolves /\ "tenantless" \notin S
    BY <2>1 DEF resolves
  <2>2. CASE ~resolves /\ "tenantless" \in S
    BY <2>2 DEF resolves
  <2>3. CASE ~resolves /\ "tenantless" \notin S
    BY <2>3 DEF resolves
  <2>. QED BY <2>1, <2>2, <2>3
<1>7. S \cap Resolving = {} => ~resolves /\ "tenantless" \notin S
  BY DEF Resolving
<1>. HIDE DEF id, bound, tenant
<1>5. PICK g : g = [r EXCEPT !.id = id, !.bound = bound, !.tenant = tenant]
  OBVIOUS
<1>6. /\ Kept(g, r) /\ g.at = r.at /\ g.todo = r.todo /\ g.role = r.role
      /\ g.effect = r.effect /\ g.owner = r.owner /\ g.audited = r.audited
      /\ g.id = id /\ g.bound = bound /\ g.tenant = tenant
  BY <1>5 DEF Fields, Kept
<1>. QED BY <1>1, <1>2, <1>3, <1>4, <1>5, <1>6, <1>7 DEF LocalisedAs

\* The shared steps set the role and id of a gRPC call, the role of a REST one,
\* the effect with its owner, and the audit event.
AfterAs(g, s, r) ==
    /\ Kept(g, r) /\ g.at = r.at /\ g.todo = r.todo /\ g.bound = r.bound /\ g.tenant = r.tenant
    /\ s # "validate_with_identity" => g.id = r.id
    /\ s \notin {"validate", "validate_with_identity"} => g.role = r.role
    /\ s = "validate_with_identity" =>
          g.id = TheOnly(validate(r.secret), {}).id /\ g.role = TheOnly(validate(r.secret), {}).role
    /\ s \notin Effects => g.effect = r.effect /\ g.owner = r.owner
    /\ s \in Effects => g.effect = TRUE
    /\ s \in Effects => g.owner = OwnerOf(s, r)
    /\ g.audited = IF s = "audit" THEN TRUE ELSE r.audited

\* The shared steps do.
LEMMA AfterIs ==
    ASSUME NEW r, DOMAIN r = Fields, NEW s
    PROVE  AfterAs(After(s, r), s, r)
<1>1. CASE s = "validate"
  <2>1. PICK x : x = IF validate(r.secret) = {} THEN "ReadOnly" ELSE TheOnly(validate(r.secret), {}).role
    OBVIOUS
  <2>3. s \notin Effects
    BY <1>1 DEF Effects
  <2>2. After(s, r) = [r EXCEPT !.role = x]
    BY <1>1, <2>1, <2>3 DEF After
  <2>. QED BY <1>1, <2>2, <2>3 DEF AfterAs, Fields, Kept
<1>2. CASE s = "validate_with_identity"
  <2>1. PICK k : k = TheOnly(validate(r.secret), {})
    OBVIOUS
  <2>3. s \notin Effects
    BY <1>2 DEF Effects
  <2>2. After(s, r) = [r EXCEPT !.id = k.id, !.role = k.role]
    BY <1>2, <2>1, <2>3 DEF After
  <2>. QED BY <1>2, <2>1, <2>2, <2>3 DEF AfterAs, Fields, Kept
<1>3. CASE s \in Effects
  <2>1. PICK x : x = OwnerOf(s, r)
    OBVIOUS
  <2>2. After(s, r) = [r EXCEPT !.effect = TRUE, !.owner = x]
    BY <1>3, <2>1 DEF After, Effects
  <2>. QED BY <1>3, <2>1, <2>2 DEF AfterAs, Fields, Kept, Effects
<1>5. CASE s = "audit"
  <2>1. After(s, r) = [r EXCEPT !.audited = TRUE]
    BY <1>5 DEF After
  <2>. QED BY <1>5, <2>1 DEF AfterAs, Fields, Kept, Effects
<1>6. CASE s \notin {"validate", "validate_with_identity", "audit"} \cup Effects
  <2>1. After(s, r) = r
    BY <1>6 DEF After, Effects
  <2>. QED BY <1>6, <2>1 DEF AfterAs, Kept, Effects
<1>. QED BY <1>1, <1>2, <1>3, <1>5, <1>6

Prog(r) == Program(r.channel, r.op)

\* What is left to do is the end of the program; Done(r) steps are behind.
Done(r) == Len(Prog(r)) - Len(r.todo)
Suffix(r) ==
    /\ r.todo \in Seq(Steps)
    /\ Done(r) \in Nat
    /\ \A j \in 1..Len(r.todo) : r.todo[j] = Prog(r)[Done(r) + j]

\* The steps that are behind after an advance: those before, the local ones
\* and the shared one.
LEMMA Forward ==
    ASSUME NEW r, DOMAIN r = Fields, Suffix(r), Prog(r) \in Seq(Steps),
           NEW g, Kept(g, r), g.todo = SubSeq(r.todo, Next1(r) + 1, Len(r.todo))
    PROVE  /\ Suffix(g) /\ Done(r) \in Nat /\ Done(g) \in Nat
           /\ Next1(r) \in Nat \ {0} /\ Done(g) <= Len(Prog(r))
           /\ Done(g) <= Done(r) + Next1(r)
           /\ \A j \in 1..Len(Prog(r)) : \/ j <= Done(r)
                                         \/ j < Done(r) + Next1(r) /\ Prog(r)[j] \in Leading(r)
                                         \/ j = Done(r) + Next1(r) /\ Prog(r)[j] = Step(r)
                                         \/ j > Done(r) + Next1(r)
           /\ \A s \in Leading(r) : s \in Local /\ \E j \in 1..(Done(r) + Next1(r) - 1) : j \in DOMAIN Prog(r) /\ Prog(r)[j] = s
           /\ \/ Step(r) = "answer" /\ g.todo = <<>>
              \/ Step(r) \in Steps /\ Done(g) = Done(r) + Next1(r) /\ Prog(r)[Done(g)] = Step(r)
<1>1. PICK n \in Nat : n = Len(r.todo)
  BY LenProperties DEF Suffix
<1>2. PICK m \in Nat : m = Len(Prog(r))
  BY LenProperties
<1>3. PICK k \in 1..(n + 1) : k = Next1(r)
  BY <1>1, LocalFirst DEF Suffix
<1>4. Done(r) = m - n /\ m - n \in Nat
  BY <1>1, <1>2 DEF Done, Suffix
<1>5. Prog(g) = Prog(r)
  BY DEF Prog, Kept
<1>6. /\ SubSeq(r.todo, k + 1, n) \in Seq(Steps)
      /\ Len(SubSeq(r.todo, k + 1, n)) = IF k <= n THEN n - k ELSE 0
      /\ \A i \in 1..(n - k) : SubSeq(r.todo, k + 1, n)[i] = r.todo[k + i]
  <2>1. \A i \in (k + 1)..n : r.todo[i] \in Steps
    BY <1>1, <1>3, ElementOfSeq DEF Suffix
  <2>2. k + 1 \in Int /\ n \in Int
    BY <1>1, <1>3
  <2>3. PICK t : t = SubSeq(r.todo, k + 1, n)
    OBVIOUS
  <2>4. /\ t \in Seq(Steps) /\ Len(t) = IF k + 1 <= n THEN n - (k + 1) + 1 ELSE 0
        /\ \A i \in 1..(n - (k + 1) + 1) : t[i] = r.todo[(k + 1) + i - 1]
    BY <2>1, <2>2, <2>3, SubSeqProperties
  <2>5. \A i \in 1..(n - k) : t[i] = r.todo[k + i]
    <3>1. n \in Int /\ k \in Int
      BY <1>1, <1>3
    <3>2. n - (k + 1) + 1 = n - k
      BY <3>1
    <3>3. \A i \in Int : (k + 1) + i - 1 = k + i
      BY <3>1
    <3>. QED BY <2>4, <3>1, <3>2, <3>3
  <2>. QED BY <1>1, <1>3, <2>3, <2>4, <2>5
<1>7. g.todo \in Seq(Steps) /\ Len(g.todo) = (IF k <= n THEN n - k ELSE 0)
      /\ \A i \in 1..(n - k) : g.todo[i] = r.todo[k + i]
  BY <1>1, <1>3, <1>6
<1>8. Done(g) = m - (IF k <= n THEN n - k ELSE 0)
  BY <1>2, <1>5, <1>7 DEF Done
<1>9. \A j \in 1..n : r.todo[j] = Prog(r)[m - n + j]
  BY <1>1, <1>4 DEF Suffix
<1>10. Suffix(g)
  <2>1. Done(g) \in Nat
    BY <1>3, <1>4, <1>8
  <2>2. ASSUME NEW j \in 1..Len(g.todo)
        PROVE  g.todo[j] = Prog(g)[Done(g) + j]
    <3>1. k <= n /\ j \in 1..(n - k)
      BY <1>3, <1>7, <2>2
    <3>2. k + j \in 1..n /\ m - n + (k + j) = m - (n - k) + j
      BY <1>3, <3>1, SMTT(30)
    <3>3. g.todo[j] = r.todo[k + j] /\ r.todo[k + j] = Prog(r)[m - n + (k + j)]
      BY <1>7, <1>9, <3>1, <3>2
    <3>. QED BY <1>5, <1>8, <3>1, <3>2, <3>3
  <2>. QED BY <1>7, <2>1, <2>2 DEF Suffix
<1>11. Leading(r) = {r.todo[j] : j \in 1..(k - 1)}
  BY <1>3 DEF Leading
<1>12. \A s \in Leading(r) : s \in Local /\ \E j \in 1..(Done(r) + Next1(r) - 1) : j \in DOMAIN Prog(r) /\ Prog(r)[j] = s
  <2>. SUFFICES ASSUME NEW j \in 1..(k - 1)
                PROVE  /\ r.todo[j] \in Local
                       /\ \E i \in 1..(Done(r) + k - 1) : i \in DOMAIN Prog(r) /\ Prog(r)[i] = r.todo[j]
    BY <1>3, <1>11
  <2>1. r.todo[j] \in Local
    BY <1>1, <1>3, LocalFirst DEF Suffix
  <2>2. m - n + j \in 1..(Done(r) + k - 1) /\ m - n + j \in DOMAIN Prog(r) /\ j \in 1..n
    BY <1>2, <1>3, <1>4, LenProperties
  <2>. QED BY <1>9, <2>1, <2>2
<1>13. \/ Step(r) = "answer" /\ k = n + 1
       \/ k \in 1..n /\ Step(r) = r.todo[k]
  BY <1>1, <1>3 DEF Step
<1>14. \/ Step(r) = "answer" /\ g.todo = <<>>
       \/ Step(r) \in Steps /\ Done(g) = Done(r) + Next1(r) /\ Prog(r)[Done(g)] = Step(r)
  <2>1. CASE k = n + 1 /\ Step(r) = "answer"
    BY <1>1, <1>7, <2>1, EmptySeq
  <2>2. CASE k \in 1..n /\ Step(r) = r.todo[k]
    <3>1. Done(g) = (m - n) + k
      BY <1>8, <2>2
    <3>2. Step(r) \in Steps
      BY <1>1, <2>2, ElementOfSeq DEF Suffix
    <3>. QED BY <1>3, <1>4, <1>9, <2>2, <3>1, <3>2
  <2>. QED BY <1>13, <2>1, <2>2
<1>15. ASSUME NEW j \in 1..m
       PROVE  \/ j <= Done(r)
              \/ j < Done(r) + Next1(r) /\ Prog(r)[j] \in Leading(r)
              \/ j = Done(r) + Next1(r) /\ Prog(r)[j] = Step(r)
              \/ j > Done(r) + Next1(r)
  <2>1. CASE j > m - n /\ j < m - n + k
    <3>1. j - (m - n) \in 1..(k - 1) /\ j - (m - n) \in 1..n /\ m - n + (j - (m - n)) = j
      BY <1>3, <1>4, <2>1
    <3>2. Prog(r)[j] = r.todo[j - (m - n)]
      BY <1>9, <3>1
    <3>. QED BY <1>3, <1>4, <1>11, <2>1, <3>1, <3>2
  <2>2. CASE j = m - n + k
    <3>1. k \in 1..n
      BY <1>3, <1>4, <2>2
    <3>. QED BY <1>3, <1>4, <1>9, <1>13, <2>2, <3>1
  <2>. QED BY <1>3, <1>4, <2>1, <2>2
<1>16. Done(g) \in Nat /\ Done(g) <= Len(Prog(r)) /\ Done(g) <= Done(r) + Next1(r)
  BY <1>2, <1>3, <1>4, <1>8
<1>17. Done(r) \in Nat /\ Next1(r) \in Nat \ {0}
  BY <1>3, <1>4
<1>18. \A j \in 1..Len(Prog(r)) : \/ j <= Done(r)
                                  \/ j < Done(r) + Next1(r) /\ Prog(r)[j] \in Leading(r)
                                  \/ j = Done(r) + Next1(r) /\ Prog(r)[j] = Step(r)
                                  \/ j > Done(r) + Next1(r)
  BY <1>2, <1>15
<1>. QED BY <1>10, <1>12, <1>14, <1>16, <1>17, <1>18

-----------------------------------------------------------------------------
(* The inductive invariant.                                                *)

Active(r) == r.at \in {"run", "answered"}

\* The steps that are behind a request.
Passed(r) == {Prog(r)[j] : j \in 1..Done(r)}

\* What a step has established about the request itself,
Own(s, r) ==
    /\ s = "audit" => r.audited = TRUE
    /\ s \in Permitting \cup {"validate_with_identity"} => Issued(r.secret)
    /\ Issued(r.secret) =>
         /\ s \in Naming => r.id = IdOf(r.secret)
         /\ s = "lookup_tenant" => r.bound = BoundOf(r.secret)
         /\ s = "validate_with_identity" => r.role = RoleOf(r.secret)
         /\ s \in Resolving => r.tenant = TenantFor(r)

\* about the approvals and the policies,
World(s, r) ==
    /\ s = "approval_tenant" /\ Issued(r.secret) /\ BoundOf(r.secret) # Unbound =>
         \A a \in Approvals(r) : a.tenant = BoundOf(r.secret)
    /\ s = "policy_save" => r.policy \in stored \/ Deleting(r.policy)
    /\ s = "policy_insert" => r.policy \in policies \/ Deleting(r.policy)
    /\ s = "policy_delete" => r.policy \notin stored \/ Creating(r.policy)
    /\ s = "policy_remove" => r.policy \notin policies \/ Creating(r.policy)

\* and about what was true while the request ran.
Granted(s, r, F) ==
    /\ s = "validate_with_identity" /\ satisfies(RoleOf(r.secret), Needs(r.op)) => "credential" \in F
    /\ s \in Permitting => "credential" \in F
    /\ s = "pbac" => "policy" \in F
    /\ s = "require_approved" => "approval" \in F
    /\ s = "own_key" => "owner" \in F

Formed(r) ==
    /\ DOMAIN r = Fields
    /\ r.at \in {"idle", "run", "answered", "refused", "dropped"}
    /\ r.effect \in BOOLEAN
    /\ r.at = "idle" => ~r.effect /\ r.op = "metrics"
    /\ Active(r) => Served(r.channel, r.op) /\ Suffix(r)
    /\ r.at = "answered" => r.todo = <<>>

Reached(r) == Active(r) => \A s \in Passed(r) : Own(s, r) /\ World(s, r)

Justified(r, F) ==
    /\ r.at = "run" => \A s \in Passed(r) : Granted(s, r, F)
    /\ r.effect => Required(r.op) \subseteq F

\* The owner of what a request took effect on is the tenant of its key.
ConfinedOps ==
    KeyOps \cup NamingOps \cup {"list_keys", "create_approval_request", "get_approval_request",
                               "approve_request", "reject_request", "cancel_request"}
Confined(r) ==
    r.effect /\ Issued(r.secret) /\ BoundOf(r.secret) # Unbound /\ r.op \in ConfinedOps =>
      r.owner = BoundOf(r.secret)

\* Approvals have ids of their own, and the tenant of a requestor bound to one.
Filed ==
    /\ \A a \in approvals : DOMAIN a = {"id", "op", "key", "tenant", "requestor", "status"}
    /\ \A a, b \in approvals : a.id = b.id => a = b
    /\ \A a \in approvals, i \in DOMAIN Declared :
         a.requestor = Declared[i].id /\ Declared[i].tenant # Unbound => a.tenant = Declared[i].tenant

IInv ==
    /\ Credentials
    /\ Filed
    /\ DOMAIN req = Clients
    /\ \A c \in Clients :
         /\ Formed(req[c])
         /\ Reached(req[c])
         /\ Justified(req[c], facts[c])
         /\ Confined(req[c])
         /\ Running(c) /\ ~req[c].effect => FactsNow(req[c]) \subseteq facts[c]

-----------------------------------------------------------------------------
(* One step of one request.                                                *)

\* The steps there are, behind and in front of a request.
LEMMA Progress ==
    ASSUME NEW r, DOMAIN r = Fields, Suffix(r), Prog(r) \in Seq(Steps),
           NEW g, Kept(g, r), g.todo = SubSeq(r.todo, Next1(r) + 1, Len(r.todo))
    PROVE  LET all == {Prog(r)[j] : j \in DOMAIN Prog(r)}
               known == Passed(r) \cup Leading(r)
           IN
           /\ Suffix(g)
           /\ Passed(g) \subseteq (known \cup {Step(r)}) \cap all
           /\ known \subseteq all /\ Leading(r) \subseteq Local
           /\ (Step(r) = "answer" /\ g.todo = <<>>) \/ Step(r) \in all
           /\ \A S, T : \A s \in S : Behind(Prog(r), S, T) /\ s \in Leading(r) \cup ({Step(r)} \ {"answer"}) =>
                \E t \in T : t \in known
<1>. DEFINE all == {Prog(r)[j] : j \in DOMAIN Prog(r)}
            known == Passed(r) \cup Leading(r)
<1>1. PICK m \in Nat : m = Len(Prog(r)) /\ DOMAIN Prog(r) = 1..m
  BY LenProperties
<1>2. PICK d \in Nat : d = Done(r) /\ d <= m
  <2>1. Len(r.todo) \in Nat
    BY LenProperties DEF Suffix
  <2>2. Done(r) \in Nat
    BY DEF Suffix
  <2>3. Done(r) = m - Len(r.todo)
    BY <1>1 DEF Done
  <2>4. ASSUME NEW l \in Nat
        PROVE  m - l <= m
    OBVIOUS
  <2>5. Done(r) <= m
    BY <2>1, <2>3, <2>4
  <2>. QED BY <2>2, <2>5
<1>3. PICK k \in Nat \ {0} : k = Next1(r)
  BY Forward
<1>4. PICK e \in Nat : e = Done(g) /\ e <= m /\ e <= d + k
  BY <1>1, <1>2, <1>3, Forward
<1>5. \A j \in 1..m : \/ j <= d
                      \/ j < d + k /\ Prog(r)[j] \in Leading(r)
                      \/ j = d + k /\ Prog(r)[j] = Step(r)
                      \/ j > d + k
  BY <1>1, <1>2, <1>3, Forward
<1>6. Passed(r) = {Prog(r)[j] : j \in 1..d}
  BY <1>2 DEF Passed
<1>7. Passed(g) = {Prog(r)[j] : j \in 1..e}
  BY <1>4 DEF Passed, Prog, Kept
<1>8. Passed(r) \subseteq all /\ Passed(g) \subseteq all
  BY <1>1, <1>2, <1>4, <1>6, <1>7, SMTT(30)
<1>9. \A j \in 1..m : j < d + k => Prog(r)[j] \in known
  BY <1>2, <1>3, <1>5, <1>6, SMTT(30)
<1>10. Passed(g) \subseteq known \cup {Step(r)}
  <2>. SUFFICES ASSUME NEW j \in 1..e
                PROVE  Prog(r)[j] \in known \cup {Step(r)}
    BY <1>7
  <2>1. j \in 1..m /\ (j < d + k \/ j = d + k)
    BY <1>2, <1>3, <1>4
  <2>. QED BY <1>2, <1>3, <1>5, <1>9, <2>1
<1>11. \A s \in Leading(r) : s \in Local /\ \E j \in 1..(d + k - 1) : j \in DOMAIN Prog(r) /\ Prog(r)[j] = s
  BY <1>2, <1>3, Forward
<1>12. \/ Step(r) = "answer" /\ g.todo = <<>>
       \/ Step(r) \in Steps /\ e = d + k /\ Prog(r)[e] = Step(r)
  BY <1>2, <1>3, <1>4, Forward
<1>13. "answer" \notin Steps
  BY DEF Steps, AuthSteps, HandlerSteps, Naming, Permitting, Resolving, Effects
<1>14. (Step(r) = "answer" /\ g.todo = <<>>) \/ Step(r) \in all
  <2>1. CASE e = d + k /\ Prog(r)[e] = Step(r)
    BY <1>1, <1>2, <1>3, <1>4, <2>1
  <2>. QED BY <1>12, <2>1
<1>15. known \subseteq all /\ Leading(r) \subseteq Local
  BY <1>8, <1>11
<1>16. ASSUME NEW S, NEW T, NEW s \in S, Behind(Prog(r), S, T), s \in Leading(r) \cup ({Step(r)} \ {"answer"})
       PROVE  \E t \in T : t \in known
  <2>1. PICK j \in DOMAIN Prog(r) : j <= d + k /\ Prog(r)[j] = s
    <3>1. CASE s \in Leading(r)
      <4>1. PICK j \in 1..(d + k - 1) : j \in DOMAIN Prog(r) /\ Prog(r)[j] = s
        BY <1>11, <3>1
      <4>. QED BY <1>2, <1>3, <4>1, SMTT(30)
    <3>2. CASE s = Step(r) /\ s # "answer"
      <4>1. e = d + k /\ Prog(r)[e] = s /\ e \in DOMAIN Prog(r)
        BY <1>1, <1>2, <1>3, <1>4, <1>12, <3>2
      <4>. QED BY <1>4, <4>1
    <3>. QED BY <1>16, <3>1, <3>2
  <2>2. PICK i \in DOMAIN Prog(r) : i < j /\ Prog(r)[i] \in T
    BY <1>16, <2>1 DEF Behind
  <2>3. i \in 1..m /\ i < d + k
    BY <1>1, <1>2, <1>3, <2>1, <2>2
  <2>. QED BY <1>9, <2>2, <2>3
<1>17. Suffix(g)
  BY Forward
<1>. HIDE DEF all, known
<1>. QED BY <1>8, <1>10, <1>14, <1>15, <1>16, <1>17 DEF all, known

\* An advance in terms of the local steps and the shared one.
LEMMA AdvanceIs ==
    ASSUME NEW r, DOMAIN r = Fields
    PROVE  LET h == Ready(r)
               k == After(Step(r), h)
               g == Advance(r)
           IN
           /\ DOMAIN h = Fields /\ Kept(h, r) /\ Kept(g, r)
           /\ g.todo = SubSeq(r.todo, Next1(r) + 1, Len(r.todo))
           /\ g.at = IF g.todo = <<>> THEN "answered" ELSE r.at
           /\ g.id = k.id /\ g.bound = k.bound /\ g.role = k.role /\ g.tenant = k.tenant
           /\ g.effect = k.effect /\ g.owner = k.owner /\ g.audited = k.audited
<1>1. PICK h : h = Ready(r)
  OBVIOUS
<1>2. DOMAIN h = Fields /\ Kept(h, r) /\ h.at = r.at
  <2>1. h = Localised(r, Leading(r))
    BY <1>1 DEF Ready
  <2>2. Kept(h, r) /\ h.at = r.at
    BY <2>1, LocalisedIs, ZenonT(40) DEF LocalisedAs
  <2>. QED BY <2>2 DEF Kept
<1>3. PICK k : k = After(Step(r), h)
  OBVIOUS
<1>4. Kept(k, h) /\ k.at = h.at
  BY <1>2, <1>3, AfterIs DEF AfterAs
<1>5. PICK rest : rest = SubSeq(r.todo, Next1(r) + 1, Len(r.todo))
  OBVIOUS
<1>6. PICK next : next = [k EXCEPT !.todo = rest]
  OBVIOUS
<1>7. Advance(r) = IF rest = <<>> THEN [next EXCEPT !.at = "answered"] ELSE next
  BY <1>1, <1>3, <1>5, <1>6 DEF Advance
<1>8. /\ DOMAIN next = DOMAIN k /\ next.todo = rest /\ next.at = k.at /\ Kept(next, k)
      /\ next.id = k.id /\ next.bound = k.bound /\ next.role = k.role /\ next.tenant = k.tenant
      /\ next.effect = k.effect /\ next.owner = k.owner /\ next.audited = k.audited
  BY <1>4, <1>6 DEF Kept, Fields
<1>9. PICK g : g = Advance(r)
  OBVIOUS
<1>10. /\ Kept(g, next) /\ g.todo = rest /\ g.at = IF rest = <<>> THEN "answered" ELSE next.at
       /\ g.id = k.id /\ g.bound = k.bound /\ g.role = k.role /\ g.tenant = k.tenant
       /\ g.effect = k.effect /\ g.owner = k.owner /\ g.audited = k.audited
  BY <1>4, <1>7, <1>8, <1>9 DEF Kept, Fields
<1>11. Kept(g, r)
  BY <1>2, <1>4, <1>8, <1>10 DEF Kept
<1>. QED BY <1>1, <1>2, <1>3, <1>4, <1>5, <1>8, <1>9, <1>10, <1>11

\* The step a request is at is a shared one.
LEMMA StepIsShared ==
    ASSUME NEW r, Suffix(r)
    PROVE  Step(r) \notin Local
<1>1. r.todo \in Seq(Steps)
  BY DEF Suffix
<1>2. Next1(r) \in 1..(Len(r.todo) + 1) /\ (Next1(r) = Len(r.todo) + 1 \/ r.todo[Next1(r)] \notin Local)
  BY <1>1, LocalFirst
<1>3. Len(r.todo) \in Nat
  BY <1>1, LenProperties
<1>4. "answer" \notin Local
  BY DEF Local
<1>. QED BY <1>2, <1>3, <1>4 DEF Step

\* A request as its next shared step finds it.
LEMMA ReadyIs ==
    ASSUME Credentials, NEW r, Formed(r), r.at = "run", Reached(r)
    PROVE  LET h == Ready(r) IN
           /\ DOMAIN h = Fields /\ Kept(h, r)
           /\ h.effect = r.effect /\ h.owner = r.owner /\ h.audited = r.audited
           /\ \A s \in Passed(r) \cup Leading(r) : Own(s, h)
<1>1. PICK h : h = Ready(r)
  OBVIOUS
<1>2. PICK L : L = Leading(r)
  OBVIOUS
<1>3. DOMAIN r = Fields /\ Served(r.channel, r.op) /\ Suffix(r)
  BY DEF Formed, Active
<1>4. InOrder(Prog(r), r.channel, r.op)
  BY <1>3, Programs DEF Prog
<1>5. PICK g : g = Advance(r)
  OBVIOUS
<1>6. Kept(g, r) /\ g.todo = SubSeq(r.todo, Next1(r) + 1, Len(r.todo)) /\ DOMAIN h = Fields /\ Kept(h, r)
  BY <1>1, <1>3, <1>5, AdvanceIs
<1>. DEFINE all == {Prog(r)[j] : j \in DOMAIN Prog(r)}
            known == Passed(r) \cup Leading(r)
<1>7. /\ known \subseteq all /\ L \subseteq Local
      /\ \A S, T : \A s \in S : Behind(Prog(r), S, T) /\ s \in L => \E t \in T : t \in known
  BY <1>2, <1>3, <1>4, <1>6, Progress DEF InOrder
<1>8. \A s \in all : Belongs(s, r.op)
  BY <1>4 DEF InOrder
<1>. HIDE DEF all, known
<1>9. /\ h.role = r.role /\ h.effect = r.effect /\ h.owner = r.owner /\ h.audited = r.audited
      /\ h.id = IF "lookup_key_id" \in L THEN TheOnly(lookup_key_id(r.secret), "unknown") ELSE r.id
      /\ h.bound = IF "lookup_tenant" \in L THEN TheOnly(lookup_tenant(r.secret), Unbound) ELSE r.bound
      /\ L \cap {"resolve", "resolve_strict"} # {} /\ "tenantless" \notin L =>
           h.tenant = resolve_tenant(h.bound, r.self)
      /\ L \cap {"resolve", "resolve_strict"} = {} /\ "tenantless" \in L =>
           h.tenant = IF h.bound = Unbound THEN "" ELSE h.bound
      /\ L \cap Resolving = {} => h.tenant = r.tenant
  <2>1. h = Localised(r, L)
    BY <1>1, <1>2 DEF Ready
  <2>2. DOMAIN r = Fields
    BY <1>3
  <2>3. LocalisedAs(h, r, L)
    BY <2>1, <2>2, LocalisedIs
  <2>. QED BY <2>3 DEF LocalisedAs
<1>10. \A s \in known : s \in L \/ Own(s, r)
  BY <1>2 DEF Reached, Active, known
<1>11. h.secret = r.secret /\ TenantFor(h) = TenantFor(r)
  BY <1>6 DEF Kept, TenantFor
<1>12. \A s \in L : s \notin Permitting \cup {"audit", "validate_with_identity"}
  BY <1>7 DEF Local, Permitting
<1>13. \A x, y : TheOnly({x}, y) = x
  BY DEF TheOnly
<1>14. Issued(r.secret) => /\ TheOnly(lookup_key_id(r.secret), "unknown") = IdOf(r.secret)
                           /\ TheOnly(lookup_tenant(r.secret), Unbound) = BoundOf(r.secret)
  <2>. SUFFICES ASSUME Issued(r.secret)
                PROVE  /\ TheOnly(lookup_key_id(r.secret), "unknown") = IdOf(r.secret)
                       /\ TheOnly(lookup_tenant(r.secret), Unbound) = BoundOf(r.secret)
    OBVIOUS
  <2>1. lookup_key_id(r.secret) = {IdOf(r.secret)} /\ lookup_tenant(r.secret) = {BoundOf(r.secret)}
    BY Holder
  <2>. QED BY <1>13, <2>1
<1>15. ASSUME Issued(r.secret), "lookup_tenant" \in known
       PROVE  h.bound = BoundOf(r.secret)
  BY <1>9, <1>10, <1>14, <1>15 DEF Own
<1>16. ASSUME NEW s \in known, Issued(r.secret), s \in Naming
       PROVE  h.id = IdOf(r.secret)
  BY <1>9, <1>10, <1>12, <1>14, <1>16 DEF Own, Naming
<1>17. ASSUME NEW s \in known, Issued(r.secret), s \in Resolving
       PROVE  h.tenant = TenantFor(r)
  <2>1. CASE L \cap Resolving = {}
    BY <1>9, <1>10, <1>17, <2>1 DEF Own
  <2>2. CASE L \cap Resolving # {}
    <3>1. PICK t \in L : t \in Resolving
      BY <2>2
    <3>2. t \in HandlerSteps /\ Behind(Prog(r), HandlerSteps, {"lookup_tenant"})
      BY <1>4, <3>1 DEF HandlerSteps, InOrder
    <3>3. "lookup_tenant" \in known
      BY <1>7, <3>1, <3>2
    <3>4. h.bound = BoundOf(r.secret)
      BY <1>15, <1>17, <3>3
    <3>5. L \subseteq all
      BY <1>2, <1>7 DEF known
    <3>6. CASE r.op \in TenantlessOps
      <4>1. t = "tenantless" /\ L \cap {"resolve", "resolve_strict"} = {}
        BY <1>8, <3>1, <3>5, <3>6 DEF Belongs, Resolving
      <4>2. h.tenant = IF h.bound = Unbound THEN "" ELSE h.bound
        BY <1>9, <3>1, <4>1
      <4>. QED BY <3>4, <3>6, <4>2 DEF TenantFor
    <3>7. CASE r.op \notin TenantlessOps
      <4>1. "tenantless" \notin L /\ t \in {"resolve", "resolve_strict"}
        BY <1>8, <3>1, <3>5, <3>7 DEF Belongs, Resolving
      <4>2. h.tenant = resolve_tenant(h.bound, r.self)
        BY <1>9, <3>1, <4>1
      <4>. QED BY <3>4, <3>7, <4>2 DEF TenantFor, resolve_tenant
    <3>. QED BY <3>6, <3>7
  <2>. QED BY <2>1, <2>2
<1>18. ASSUME NEW s \in known
       PROVE  Own(s, h)
  <2>1. s = "audit" => h.audited = TRUE
    BY <1>9, <1>10, <1>12, <1>18 DEF Own
  <2>2. s \in Permitting \cup {"validate_with_identity"} => Issued(h.secret)
    BY <1>10, <1>11, <1>12, <1>18 DEF Own
  <2>3. Issued(r.secret) /\ s = "validate_with_identity" => h.role = RoleOf(r.secret)
    BY <1>9, <1>10, <1>12, <1>18 DEF Own
  <2>. QED BY <1>11, <1>15, <1>16, <1>17, <1>18, <2>1, <2>2, <2>3 DEF Own
<1>. QED BY <1>1, <1>6, <1>9, <1>18 DEF known

\* A shared step that passes keeps what the request knows, and adds to it.
LEMMA AdvanceOwn ==
    ASSUME Credentials, NEW r, Formed(r), r.at = "run", Reached(r), Passes(Step(r), Ready(r))
    PROVE  \A s \in Passed(Advance(r)) : Own(s, Advance(r))
<1>1. PICK h : h = Ready(r)
  OBVIOUS
<1>2. PICK g : g = Advance(r)
  OBVIOUS
<1>3. DOMAIN r = Fields /\ Served(r.channel, r.op) /\ Suffix(r)
  BY DEF Formed, Active
<1>4. InOrder(Prog(r), r.channel, r.op)
  BY <1>3, Programs DEF Prog
<1>. DEFINE all == {Prog(r)[j] : j \in DOMAIN Prog(r)}
            known == Passed(r) \cup Leading(r)
<1>5. /\ DOMAIN h = Fields /\ Kept(h, r) /\ \A s \in known : Own(s, h)
  BY <1>1, ReadyIs
<1>6. PICK k : k = After(Step(r), h)
  OBVIOUS
<1>7. /\ Kept(g, r) /\ g.todo = SubSeq(r.todo, Next1(r) + 1, Len(r.todo))
      /\ g.id = k.id /\ g.bound = k.bound /\ g.role = k.role /\ g.tenant = k.tenant /\ g.audited = k.audited
  BY <1>1, <1>2, <1>3, <1>6, AdvanceIs
<1>8. /\ Passed(g) \subseteq (known \cup {Step(r)}) \cap all /\ known \subseteq all
      /\ Step(r) = "answer" \/ Step(r) \in all
      /\ \A S, T : Behind(Prog(r), S, T) /\ Step(r) \in S /\ Step(r) # "answer" => \E t \in T : t \in known
  BY <1>3, <1>4, <1>7, Progress DEF InOrder
<1>9. \A s \in all : Fits(s, r.channel)
  BY <1>4 DEF InOrder
<1>10. /\ k.bound = h.bound /\ k.tenant = h.tenant
       /\ Step(r) # "validate_with_identity" => k.id = h.id
       /\ Step(r) \notin {"validate", "validate_with_identity"} => k.role = h.role
       /\ Step(r) = "validate_with_identity" =>
            k.id = TheOnly(validate(h.secret), {}).id /\ k.role = TheOnly(validate(h.secret), {}).role
       /\ k.audited = IF Step(r) = "audit" THEN TRUE ELSE h.audited
  <2>1. DOMAIN h = Fields
    BY <1>5
  <2>2. AfterAs(k, Step(r), h)
    BY <1>6, <2>1, AfterIs
  <2>. QED BY <2>2 DEF AfterAs
<1>11. h.secret = r.secret /\ g.secret = r.secret /\ TenantFor(h) = TenantFor(r) /\ TenantFor(g) = TenantFor(r)
       /\ h.op = r.op
  BY <1>5, <1>7 DEF Kept, TenantFor
<1>. HIDE DEF all, known
<1>12. ASSUME Step(r) = "validate_with_identity"
       PROVE  Issued(r.secret) /\ k.id = IdOf(r.secret) /\ k.role = RoleOf(r.secret)
  <2>1. validate(r.secret) # {}
    BY <1>1, <1>11, <1>12 DEF Passes
  <2>2. Issued(r.secret)
    BY <2>1, Stranger
  <2>3. /\ validate(r.secret) = {creds[Of(r.secret)]}
        /\ creds[Of(r.secret)].id = IdOf(r.secret) /\ creds[Of(r.secret)].role = RoleOf(r.secret)
    BY <2>1, <2>2, Holder
  <2>4. TheOnly(validate(r.secret), {}) = creds[Of(r.secret)]
    BY <2>3 DEF TheOnly
  <2>. QED BY <1>10, <1>11, <1>12, <2>2, <2>3, <2>4
<1>13. ASSUME Step(r) \in Permitting
       PROVE  Issued(r.secret)
  <2>1. CASE Step(r) = "has_permission"
    <3>1. validate(r.secret) # {}
      BY <1>1, <1>11, <2>1 DEF Passes, has_permission
    <3>. QED BY <3>1, Stranger
  <2>2. CASE Step(r) = "check_permission"
    <3>1. "validate_with_identity" \in known
      BY <1>4, <1>8, <2>2 DEF InOrder
    <3>. QED BY <1>5, <1>11, <3>1 DEF Own, known
  <2>. QED BY <1>13, <2>1, <2>2 DEF Permitting
<1>14. "validate_with_identity" \in known => Step(r) # "validate"
  BY <1>8, <1>9 DEF Fits
<1>15. Step(r) \notin Naming \ {"validate_with_identity"} /\ Step(r) # "lookup_tenant" /\ Step(r) \notin Resolving
  BY <1>3, StepIsShared DEF Local, Naming, Resolving
<1>16. \A s \in Passed(g) : s \in known \/ s = Step(r)
  BY <1>8
<1>17. ASSUME NEW s \in Passed(g)
       PROVE  Own(s, g)
  <2>1. s = "audit" => g.audited = TRUE
    BY <1>5, <1>7, <1>10, <1>16, <1>17 DEF Own, known
  <2>2. s \in Permitting \cup {"validate_with_identity"} => Issued(g.secret)
    BY <1>5, <1>11, <1>12, <1>13, <1>16, <1>17 DEF Own, known
  <2>3. Issued(r.secret) /\ s \in Naming => g.id = IdOf(r.secret)
    BY <1>5, <1>7, <1>10, <1>11, <1>12, <1>15, <1>16, <1>17 DEF Own, known
  <2>4. Issued(r.secret) /\ s = "lookup_tenant" => g.bound = BoundOf(r.secret)
    BY <1>5, <1>7, <1>10, <1>11, <1>15, <1>16, <1>17 DEF Own, known
  <2>5. Issued(r.secret) /\ s = "validate_with_identity" => g.role = RoleOf(r.secret)
    BY <1>5, <1>7, <1>10, <1>11, <1>12, <1>14, <1>16, <1>17 DEF Own, known
  <2>6. Issued(r.secret) /\ s \in Resolving => g.tenant = TenantFor(r)
    BY <1>5, <1>7, <1>10, <1>11, <1>15, <1>16, <1>17 DEF Own, known
  <2>. QED BY <1>11, <2>1, <2>2, <2>3, <2>4, <2>5, <2>6 DEF Own
<1>. QED BY <1>2, <1>17

\* What counts as a fact.
LEMMA FactsAre ==
    ASSUME NEW r
    PROVE  /\ "credential" \in FactsNow(r) <=> \E k \in Credential(r) : Usable(k) /\ satisfies(k.role, Needs(r.op))
           /\ "policy" \in FactsNow(r) <=> PolicyAllows(r)
           /\ "approval" \in FactsNow(r) <=> Approved(r.op, r.key)
           /\ "owner" \in FactsNow(r) <=> Owned(r.key, TenantOf(r))
<1>. DEFINE holds(f) ==
         CASE f = "credential" -> \E k \in Credential(r) : Usable(k) /\ satisfies(k.role, Needs(r.op))
           [] f = "policy"     -> PolicyAllows(r)
           [] f = "approval"   -> Approved(r.op, r.key)
           [] f = "owner"      -> Owned(r.key, TenantOf(r))
<1>1. FactsNow(r) = {f \in {"credential", "policy", "approval", "owner"} : holds(f)}
  BY Zenon DEF FactsNow
<1>2. /\ holds("credential") <=> \E k \in Credential(r) : Usable(k) /\ satisfies(k.role, Needs(r.op))
      /\ holds("policy") <=> PolicyAllows(r)
      /\ holds("approval") <=> Approved(r.op, r.key)
      /\ holds("owner") <=> Owned(r.key, TenantOf(r))
  OBVIOUS
<1>. HIDE DEF holds
<1>. QED BY <1>1, <1>2

\* A usable key whose role has the permission.
LEMMA CredentialFact ==
    ASSUME Credentials, NEW r, Issued(r.secret), Usable(creds[Of(r.secret)]),
           satisfies(RoleOf(r.secret), Needs(r.op))
    PROVE  "credential" \in FactsNow(r)
<1>1. Credential(r) = {creds[Of(r.secret)]}
  BY ActsFor
<1>2. creds[Of(r.secret)].role = RoleOf(r.secret)
  BY Holder
<1>. QED BY <1>1, <1>2, FactsAre

\* A request the policies let pass, asked about under its own name and tenant.
LEMMA PolicyFact ==
    ASSUME Credentials, NEW r, Issued(r.secret), NEW h, Kept(h, r),
           h.id = IdOf(r.secret), h.tenant = TenantFor(r), evaluate_pbac(Context(h))
    PROVE  "policy" \in FactsNow(r)
<1>1. Credential(r) = {creds[Of(r.secret)]} /\ TenantOf(r) = TenantFor(r)
  BY ActsFor
<1>2. creds[Of(r.secret)].id = IdOf(r.secret)
  BY Holder
<1>3. PICK ctx : ctx = Context(h)
  OBVIOUS
<1>4. ctx.subject = IdOf(r.secret) /\ ctx.tenant = TenantFor(r) /\ ctx.action = r.op /\ ctx.resource = ResourceOf(r)
  <2>1. ResourceOf(h) = ResourceOf(r)
    BY DEF ResourceOf, Kept
  <2>2. ctx = [subject |-> h.id, tenant |-> h.tenant, action |-> h.op, resource |-> ResourceOf(h)]
    BY <1>3 DEF Context
  <2>. QED BY <2>1, <2>2 DEF Kept
<1>. DEFINE applies(p) == \E k \in Credential(r) :
                            /\ p.enabled
                            /\ k.id \in p.subjects
                            /\ ResourceOf(r) \in p.resources
                            /\ r.op \in p.actions
                            /\ p.tenant \in {AnyTenant} \cup ({TenantOf(r)} \ {""})
            holding == {p \in Matching(policies, ctx) : ctx.action \in p.actions}
<1>5. \A p \in policies : p \in holding <=> applies(p)
  BY <1>1, <1>2, <1>4 DEF Matching, tenant_matches
<1>6. holding \subseteq policies
  BY DEF Matching
<1>7. \/ \A p \in policies : ~p.enabled
      \/ evaluate_locked(policies, ctx) # "Deny"
  BY <1>3 DEF evaluate_pbac, evaluate_if_configured
<1>8. evaluate_locked(policies, ctx) # "Deny" =>
        /\ \E p \in holding : p.effect = "Allow"
        /\ \A p \in holding : p.effect # "Deny"
  BY DEF evaluate_locked
<1>. HIDE DEF holding
<1>9. \/ \A p \in policies : ~p.enabled
      \/ /\ \E p \in policies : applies(p) /\ p.effect = "Allow"
         /\ \A p \in policies : applies(p) => p.effect # "Deny"
  <2>. HIDE DEF applies
  <2>. QED BY <1>5, <1>6, <1>7, <1>8
<1>10. PolicyAllows(r)
  BY <1>9, Zenon DEF PolicyAllows
<1>. QED BY <1>10, FactsAre

\* A tenant-bound caller decides on approvals of its tenant only.
LEMMA ApprovalOwner ==
    ASSUME Filed, NEW h, NEW a \in Approvals(h)
    PROVE  (CHOOSE b \in Approvals(h) : TRUE) = a
<1>1. \A b \in Approvals(h) : b = a
  BY DEF Filed, Approvals
<1>. QED BY <1>1

\* What a request that takes a step stands on.
LEMMA AdvanceBasis ==
    ASSUME Credentials, NEW r, Formed(r), r.at = "run", Reached(r)
    PROVE  LET known == Passed(r) \cup Leading(r)
               g == Advance(r)
               h == Ready(r)
           IN
           /\ DOMAIN r = Fields /\ Suffix(r) /\ InOrder(Prog(r), r.channel, r.op)
           /\ Kept(g, r) /\ Kept(h, r) /\ AfterAs(After(Step(r), h), Step(r), h)
           /\ \A s \in known : Own(s, h) /\ Belongs(s, r.op)
           /\ Step(r) # "answer" => Belongs(Step(r), r.op) /\ Step(r) \in Steps
           /\ Passed(g) \subseteq known \cup ({Step(r)} \ {"answer"})
           /\ Leading(r) \subseteq Local
           /\ \A S, T : Behind(Prog(r), S, T) /\ Step(r) \in S /\ Step(r) # "answer" => \E t \in T : t \in known
           /\ Suffix(g) /\ (Step(r) = "answer" => g.todo = <<>>)
<1>1. DOMAIN r = Fields /\ Served(r.channel, r.op) /\ Suffix(r)
  BY DEF Formed, Active
<1>2. InOrder(Prog(r), r.channel, r.op)
  BY <1>1, Programs DEF Prog
<1>3. PICK g : g = Advance(r)
  OBVIOUS
<1>4. PICK h : h = Ready(r)
  OBVIOUS
<1>. DEFINE all == {Prog(r)[j] : j \in DOMAIN Prog(r)}
            known == Passed(r) \cup Leading(r)
<1>5. Kept(g, r) /\ g.todo = SubSeq(r.todo, Next1(r) + 1, Len(r.todo)) /\ DOMAIN h = Fields /\ Kept(h, r)
  BY <1>1, <1>3, <1>4, AdvanceIs
<1>6. \A s \in known : Own(s, h)
  BY <1>4, ReadyIs
<1>7. AfterAs(After(Step(r), h), Step(r), h)
  BY <1>5, AfterIs
<1>8. /\ Suffix(g)
      /\ Passed(g) \subseteq (known \cup {Step(r)}) \cap all
      /\ known \subseteq all /\ Leading(r) \subseteq Local
      /\ (Step(r) = "answer" /\ g.todo = <<>>) \/ Step(r) \in all
      /\ \A S, T : Behind(Prog(r), S, T) /\ Step(r) \in S /\ Step(r) # "answer" => \E t \in T : t \in known
  BY <1>1, <1>2, <1>5, Progress DEF InOrder
<1>9. \A s \in all : Belongs(s, r.op) /\ s \in Steps
  <2>1. \A j \in DOMAIN Prog(r) : Prog(r)[j] \in Steps
    BY <1>2, ElementOfSeq, LenProperties DEF InOrder
  <2>. QED BY <1>2, <2>1 DEF InOrder
<1>10. "answer" \notin Steps
  BY DEF Steps, AuthSteps, HandlerSteps, Naming, Permitting, Resolving, Effects
<1>11. Passed(g) \subseteq known \cup ({Step(r)} \ {"answer"}) /\ (Step(r) = "answer" => g.todo = <<>>)
  BY <1>8, <1>9, <1>10
<1>. HIDE DEF all
<1>. QED BY <1>1, <1>2, <1>3, <1>4, <1>5, <1>6, <1>7, <1>8, <1>9, <1>11

\* A step that passes is backed by what is true in the state it is taken in.
LEMMA AdvanceGranted ==
    ASSUME Credentials, NEW r, Formed(r), r.at = "run", Reached(r), Passes(Step(r), Ready(r)),
           NEW F, Justified(r, F), ~r.effect => FactsNow(r) \subseteq F
    PROVE  \A s \in Passed(Advance(r)) : Granted(s, Advance(r), F)
<1>1. PICK h : h = Ready(r)
  OBVIOUS
<1>2. PICK g : g = Advance(r)
  OBVIOUS
<1>. DEFINE known == Passed(r) \cup Leading(r)
<1>3. /\ InOrder(Prog(r), r.channel, r.op) /\ Kept(g, r) /\ Kept(h, r)
      /\ \A s \in known : Own(s, h) /\ Belongs(s, r.op)
      /\ Step(r) # "answer" => Belongs(Step(r), r.op) /\ Step(r) \in Steps
      /\ Passed(g) \subseteq known \cup ({Step(r)} \ {"answer"})
      /\ Leading(r) \subseteq Local
      /\ \A S, T : Behind(Prog(r), S, T) /\ Step(r) \in S /\ Step(r) # "answer" => \E t \in T : t \in known
  BY <1>1, <1>2, AdvanceBasis
<1>4. g.secret = r.secret /\ h.secret = r.secret /\ g.op = r.op /\ h.op = r.op /\ h.key = r.key
  BY <1>3 DEF Kept
<1>5. \A s \in Leading(r) : s \notin Permitting \cup {"validate_with_identity", "pbac", "require_approved", "own_key"}
  BY <1>3 DEF Local, Permitting
<1>. HIDE DEF known
<1>6. CASE r.effect
  <2>1. Required(r.op) \subseteq F
    BY <1>6 DEF Justified
  <2>2. \A s \in Passed(g) : Belongs(s, r.op)
    BY <1>3
  <2>3. "credential" \in F /\ (r.op \in SharedOps => "policy" \in F) /\ (r.op \in GatedOps => "approval" \in F)
       /\ (r.op \in {"dh_derive", "create_approval_request"} => "owner" \in F)
    BY <2>1 DEF Required, KeyOps
  <2>4. \A s \in Passed(g) : Granted(s, g, F)
    BY <1>4, <2>2, <2>3 DEF Granted, Belongs
  <2>. QED BY <1>2, <2>4
<1>7. CASE ~r.effect
  <2>1. FactsNow(r) \subseteq F
    BY <1>7
  <2>2. ASSUME NEW s \in known
        PROVE  Granted(s, r, F)
    BY <1>5, <2>2 DEF Granted, Justified, known
  <2>3. ASSUME Issued(r.secret), validate(r.secret) # {}
        PROVE  Usable(creds[Of(r.secret)]) /\ validate(r.secret) = {creds[Of(r.secret)]}
               /\ creds[Of(r.secret)].role = RoleOf(r.secret) /\ RoleOf(r.secret) \in Roles
    BY <2>3, Holder DEF CredShape
  <2>4. Step(r) = "validate_with_identity" /\ satisfies(RoleOf(r.secret), Needs(r.op)) => "credential" \in F
    <3>. SUFFICES ASSUME Step(r) = "validate_with_identity", satisfies(RoleOf(r.secret), Needs(r.op))
                  PROVE  "credential" \in F
      OBVIOUS
    <3>1. validate(r.secret) # {}
      BY <1>1, <1>4 DEF Passes
    <3>2. Issued(r.secret)
      BY <3>1, Stranger
    <3>. QED BY <2>1, <2>3, <3>1, <3>2, CredentialFact
  <2>5. Step(r) \in Permitting => "credential" \in F
    <3>1. CASE Step(r) = "has_permission"
      <4>1. PICK k \in validate(r.secret) : satisfies(k.role, create_routes(r.op))
        BY <1>1, <1>4, <3>1 DEF Passes, has_permission
      <4>2. Issued(r.secret)
        BY <4>1, Stranger
      <4>3. /\ Usable(creds[Of(r.secret)]) /\ RoleOf(r.secret) \in Roles
            /\ satisfies(RoleOf(r.secret), create_routes(r.op))
        BY <2>3, <4>1, <4>2
      <4>4. satisfies(RoleOf(r.secret), Needs(r.op))
        <5>1. r.op \in RestOps
          BY <1>3, <3>1 DEF Fits, Formed, Active, Served, RestOps
        <5>. QED BY <4>3, <5>1, Routed
      <4>. QED BY <2>1, <4>2, <4>3, <4>4, CredentialFact
    <3>2. CASE Step(r) = "check_permission"
      <4>1. "validate_with_identity" \in known /\ r.op \in SharedOps
        BY <1>3, <3>2 DEF InOrder, Belongs
      <4>2. h.role = RoleOf(r.secret)
        BY <1>3, <1>4, <4>1 DEF Own
      <4>3. satisfies(RoleOf(r.secret), Needs(r.op))
        <5>1. satisfies(RoleOf(r.secret), Grpc[r.op].permission)
          BY <1>1, <1>4, <3>2, <4>2 DEF Passes
        <5>2. Needs(r.op) = Grpc[r.op].permission
          BY <4>1 DEF Needs, SharedOps, KeyOps, NamingOps, TenantlessOps, Sm9Ops, PolicyOps, MfaOps
        <5>. QED BY <5>1, <5>2
      <4>. QED BY <2>2, <4>1, <4>3 DEF Granted
    <3>. QED BY <3>1, <3>2 DEF Permitting
  <2>6. Step(r) = "pbac" => "policy" \in F
    <3>. SUFFICES ASSUME Step(r) = "pbac"
                  PROVE  "policy" \in F
      OBVIOUS
    <3>1. PICK t \in Resolving : t \in known
      BY <1>3 DEF InOrder, Guarded
    <3>2. PICK n \in Naming : n \in known
      BY <1>3 DEF InOrder, HandlerSteps
    <3>3. PICK p \in Permitting : p \in known
      BY <1>3 DEF InOrder, HandlerSteps
    <3>4. Issued(r.secret)
      BY <1>3, <1>4, <3>3 DEF Own
    <3>5. h.id = IdOf(r.secret) /\ h.tenant = TenantFor(h)
      BY <1>3, <1>4, <3>1, <3>2, <3>4 DEF Own
    <3>6. h.tenant = TenantFor(r)
      BY <1>3, <3>5 DEF TenantFor, Kept
    <3>7. evaluate_pbac(Context(h))
      BY <1>1 DEF Passes
    <3>. QED BY <1>3, <2>1, <3>4, <3>5, <3>6, <3>7, PolicyFact
  <2>7. Step(r) = "require_approved" => "approval" \in F
    <3>. SUFFICES ASSUME Step(r) = "require_approved"
                  PROVE  "approval" \in F
      OBVIOUS
    <3>1. Approved(r.op, r.key)
      BY <1>1, <1>4 DEF Passes
    <3>. QED BY <2>1, <3>1, FactsAre
  <2>8. Step(r) = "own_key" => "owner" \in F
    <3>. SUFFICES ASSUME Step(r) = "own_key"
                  PROVE  "owner" \in F
      OBVIOUS
    <3>1. PICK t \in Resolving : t \in known
      BY <1>3 DEF InOrder, Guarded
    <3>2. PICK p \in Permitting : p \in known
      BY <1>3 DEF InOrder, HandlerSteps
    <3>3. Issued(r.secret)
      BY <1>3, <1>4, <3>2 DEF Own
    <3>4. h.tenant = TenantFor(r) /\ TenantOf(r) = TenantFor(r)
      BY <1>3, <1>4, <3>1, <3>3, ActsFor DEF Own, TenantFor, Kept
    <3>5. Owned(r.key, h.tenant)
      BY <1>1, <1>4 DEF Passes
    <3>. QED BY <2>1, <3>4, <3>5, FactsAre
  <2>9. \A s \in Passed(g) : Granted(s, g, F)
    <3>1. Granted(Step(r), r, F)
      BY <2>4, <2>5, <2>6, <2>7, <2>8 DEF Granted
    <3>2. \A s \in Passed(g) : Granted(s, r, F)
      BY <1>3, <2>2, <3>1
    <3>. QED BY <1>4, <3>2 DEF Granted
  <2>. QED BY <1>2, <2>9
<1>. QED BY <1>6, <1>7

\* A request takes effect with everything its operation requires.
LEMMA AdvanceAuthorised ==
    ASSUME Credentials, NEW r, Formed(r), r.at = "run", Reached(r), Passes(Step(r), Ready(r)),
           NEW F, Justified(r, F), ~r.effect => FactsNow(r) \subseteq F, Advance(r).effect
    PROVE  Required(Advance(r).op) \subseteq F
<1>1. PICK h : h = Ready(r)
  OBVIOUS
<1>2. PICK g : g = Advance(r)
  OBVIOUS
<1>. DEFINE known == Passed(r) \cup Leading(r)
<1>3. /\ InOrder(Prog(r), r.channel, r.op) /\ Kept(g, r) /\ Kept(h, r)
      /\ \A s \in known : Own(s, h) /\ Belongs(s, r.op)
      /\ Step(r) # "answer" => Belongs(Step(r), r.op) /\ Step(r) \in Steps
      /\ Leading(r) \subseteq Local
      /\ \A S, T : Behind(Prog(r), S, T) /\ Step(r) \in S /\ Step(r) # "answer" => \E t \in T : t \in known
  BY <1>1, <1>2, AdvanceBasis
<1>4. h.secret = r.secret /\ g.op = r.op /\ h.op = r.op /\ h.key = r.key
  BY <1>3 DEF Kept
<1>5. \A s \in Leading(r) : s \notin Permitting \cup {"pbac", "require_approved"}
  BY <1>3 DEF Local, Permitting
<1>6. \A s \in Passed(r) : Granted(s, r, F)
  BY DEF Justified
<1>7. CASE r.effect
  BY <1>2, <1>4, <1>7 DEF Justified
<1>8. CASE ~r.effect
  <2>1. Step(r) \in Effects
    <3>1. h.effect = r.effect
      BY <1>1, ReadyIs
    <3>2. DOMAIN r = Fields
      BY DEF Formed
    <3>3. g.effect = After(Step(r), h).effect
      BY <1>1, <1>2, <3>2, AdvanceIs
    <3>4. AfterAs(After(Step(r), h), Step(r), h)
      BY <1>1, AdvanceBasis
    <3>. QED BY <1>2, <1>8, <3>1, <3>3, <3>4 DEF AfterAs
  <2>2. Step(r) \in HandlerSteps /\ Step(r) # "answer"
    BY <2>1 DEF HandlerSteps, Effects
  <2>3. PICK p \in Permitting : p \in known
    BY <1>3, <2>2 DEF InOrder
  <2>4. "credential" \in F
    BY <1>5, <1>6, <2>3 DEF Granted
  <2>5. CASE Step(r) # "service"
    <3>1. r.op \in MfaOps \cup PolicyOps \cup ApprovalOps
      BY <1>3, <2>1, <2>2, <2>5 DEF Belongs, Effects, PolicyOps, ApprovalOps
    <3>2. r.op \notin SharedOps /\ r.op \notin GatedOps /\ r.op \notin KeyOps
      BY <3>1 DEF SharedOps, GatedOps, KeyOps, NamingOps, TenantlessOps, Sm9Ops, MfaOps, PolicyOps, ApprovalOps
    <3>3. ASSUME r.op = "create_approval_request"
          PROVE  "owner" \in F
      <4>1. Step(r) = "approval_create"
        BY <1>3, <2>1, <2>2, <2>5, <3>3 DEF Belongs, Effects, MfaOps
      <4>2. "own_key" \in known
        BY <1>3, <2>2, <4>1 DEF InOrder, Guarded
      <4>. QED BY <1>3, <1>6, <4>2 DEF Granted, Local
    <3>. QED BY <1>2, <1>4, <2>4, <3>2, <3>3 DEF Required
  <2>6. CASE Step(r) = "service"
    <3>1. r.op \in SharedOps => "policy" \in F
      <4>. SUFFICES ASSUME r.op \in SharedOps PROVE "policy" \in F
        OBVIOUS
      <4>1. "pbac" \in known
        BY <1>3, <2>2, <2>6 DEF InOrder, Guarded
      <4>. QED BY <1>5, <1>6, <4>1 DEF Granted
    <3>2. r.op \in GatedOps => "approval" \in F
      <4>. SUFFICES ASSUME r.op \in GatedOps PROVE "approval" \in F
        OBVIOUS
      <4>1. "require_approved" \in known
        BY <1>3, <2>2, <2>6 DEF InOrder, Guarded
      <4>. QED BY <1>5, <1>6, <4>1 DEF Granted
    <3>3. r.op \in KeyOps => "owner" \in F
      <4>. SUFFICES ASSUME r.op \in KeyOps PROVE "owner" \in F
        OBVIOUS
      <4>1. PICK t \in Resolving : t \in known
        BY <1>3, <2>2, <2>6 DEF InOrder, Guarded, SharedOps
      <4>2. Issued(r.secret)
        BY <1>3, <1>4, <2>3 DEF Own
      <4>3. h.tenant = TenantFor(h) /\ TenantFor(h) = TenantFor(r)
        BY <1>3, <1>4, <4>1, <4>2 DEF Own, TenantFor, Kept
      <4>4. Owned(r.key, h.tenant)
        BY <1>1, <1>4, <2>6 DEF Passes
      <4>5. TenantOf(r) = TenantFor(r)
        BY <4>2, ActsFor
      <4>. QED BY <1>8, <4>3, <4>4, <4>5, FactsAre
    <3>4. r.op # "create_approval_request"
      BY <1>3, <2>2, <2>6 DEF Belongs
    <3>. QED BY <1>2, <1>4, <2>4, <3>1, <3>2, <3>3, <3>4 DEF Required
  <2>. QED BY <2>5, <2>6
<1>. QED BY <1>7, <1>8 DEF Formed

\* An advance leaves a request in order.
LEMMA AdvanceFormed ==
    ASSUME Credentials, NEW r, Formed(r), r.at = "run", Reached(r)
    PROVE  /\ Formed(Advance(r)) /\ Kept(Advance(r), r)
           /\ Step(r) \notin Effects => Advance(r).effect = r.effect /\ Advance(r).owner = r.owner
<1>1. PICK h : h = Ready(r)
  OBVIOUS
<1>2. PICK g : g = Advance(r)
  OBVIOUS
<1>3. /\ DOMAIN r = Fields /\ Kept(g, r) /\ AfterAs(After(Step(r), h), Step(r), h)
      /\ Step(r) # "answer" => Belongs(Step(r), r.op)
      /\ Suffix(g)
  BY <1>1, <1>2, AdvanceBasis
<1>4. /\ g.at = IF g.todo = <<>> THEN "answered" ELSE r.at
      /\ g.effect = After(Step(r), h).effect /\ g.owner = After(Step(r), h).owner
  BY <1>1, <1>2, <1>3, AdvanceIs
<1>5. h.effect = r.effect /\ h.owner = r.owner
  BY <1>1, ReadyIs
<1>6. /\ Step(r) \in Effects => g.effect = TRUE
      /\ Step(r) \notin Effects => g.effect = r.effect /\ g.owner = r.owner
  BY <1>3, <1>4, <1>5 DEF AfterAs
<1>7. DOMAIN g = Fields /\ g.op = r.op /\ g.channel = r.channel
  BY <1>3 DEF Kept
<1>8. r.effect \in BOOLEAN /\ Served(r.channel, r.op)
  BY DEF Formed, Active
<1>9. g.effect \in BOOLEAN
  BY <1>6, <1>8
<1>10. g.at \in {"run", "answered"} /\ (g.at = "answered" => g.todo = <<>>)
  BY <1>4
<1>11. Formed(g)
  BY <1>3, <1>7, <1>8, <1>9, <1>10 DEF Formed
<1>. QED BY <1>2, <1>3, <1>6, <1>11

\* What a request takes effect on belongs to the tenant of its key.
LEMMA AdvanceConfined ==
    ASSUME Credentials, Filed, NEW r, Formed(r), r.at = "run", Reached(r), Confined(r),
           Passes(Step(r), Ready(r))
    PROVE  Confined(Advance(r))
<1>1. PICK h : h = Ready(r)
  OBVIOUS
<1>2. PICK g : g = Advance(r)
  OBVIOUS
<1>3. Kept(g, r) /\ (Step(r) \notin Effects => g.effect = r.effect /\ g.owner = r.owner)
  BY <1>2, AdvanceFormed
<1>4. CASE Step(r) \notin Effects
  BY <1>2, <1>3, <1>4 DEF Confined, Kept
<1>5. CASE Step(r) \in Effects
  <2>. DEFINE known == Passed(r) \cup Leading(r)
  <2>1. /\ DOMAIN r = Fields /\ InOrder(Prog(r), r.channel, r.op) /\ Kept(h, r)
        /\ AfterAs(After(Step(r), h), Step(r), h)
        /\ \A s \in known : Own(s, h)
        /\ Step(r) # "answer" => Belongs(Step(r), r.op)
        /\ Leading(r) \subseteq Local
        /\ \A S, T : Behind(Prog(r), S, T) /\ Step(r) \in S /\ Step(r) # "answer" => \E t \in T : t \in known
    BY <1>1, AdvanceBasis
  <2>2. g.owner = After(Step(r), h).owner
    BY <1>1, <1>2, <2>1, AdvanceIs
  <2>. DEFINE ofApproval == {"approval_read", "approval_approve", "approval_reject", "approval_cancel"}
  <2>3. /\ Step(r) = "service" => g.owner = IF h.op \in KeyOps THEN store[h.key] ELSE h.tenant
        /\ Step(r) \in ofApproval => g.owner = (CHOOSE a \in Approvals(h) : TRUE).tenant
        /\ Step(r) = "approval_create" => g.owner = h.tenant
    <3>1. g.owner = OwnerOf(Step(r), h)
      BY <1>5, <2>1, <2>2 DEF AfterAs
    <3>. QED BY <3>1 DEF OwnerOf
  <2>4. /\ h.secret = r.secret /\ h.op = r.op /\ h.key = r.key /\ h.approval = r.approval
        /\ g.secret = r.secret /\ g.op = r.op
    BY <1>3, <2>1 DEF Kept
  <2>. SUFFICES ASSUME Issued(r.secret), BoundOf(r.secret) # Unbound, r.op \in ConfinedOps
                PROVE  g.owner = BoundOf(r.secret)
    BY <1>2, <2>4 DEF Confined
  <2>5. Step(r) \in HandlerSteps /\ Step(r) # "answer"
    BY <1>5 DEF HandlerSteps, Effects
  <2>6. TenantFor(h) = BoundOf(r.secret)
    BY <2>4 DEF TenantFor
  <2>7. CASE Step(r) = "service"
    <3>1. r.op \in SharedOps
      BY <2>1, <2>5, <2>7 DEF Belongs, ConfinedOps, SharedOps
    <3>2. PICK t \in Resolving : t \in known
      BY <2>1, <2>5, <2>7, <3>1 DEF InOrder, Guarded
    <3>3. h.tenant = BoundOf(r.secret)
      BY <2>1, <2>4, <2>6, <3>2 DEF Own
    <3>4. r.op \in KeyOps => store[h.key] = h.tenant
      BY <1>1, <2>4, <2>7 DEF Passes, Owned
    <3>. QED BY <2>3, <2>4, <2>7, <3>3, <3>4
  <2>8. CASE Step(r) \in {"approval_approve", "approval_reject"}
    <3>1. "approval_tenant" \in known
      BY <2>1, <2>5, <2>8 DEF InOrder, Guarded
    <3>2. "approval_tenant" \in Passed(r)
      BY <2>1, <3>1 DEF Local
    <3>3. \A a \in Approvals(r) : a.tenant = BoundOf(r.secret)
      BY <3>2 DEF Reached, Active, World
    <3>4. Approvals(h) = Approvals(r)
      BY <2>4 DEF Approvals
    <3>5. PICK a \in Approvals(h) : TRUE
      BY <1>1, <2>8 DEF Passes
    <3>6. (CHOOSE b \in Approvals(h) : TRUE) = a
      BY ApprovalOwner
    <3>. QED BY <2>3, <2>8, <3>3, <3>4, <3>6
  <2>9. CASE Step(r) = "approval_cancel"
    <3>1. PICK n \in Naming : n \in known
      BY <2>1, <2>5 DEF InOrder
    <3>2. h.id = IdOf(r.secret)
      BY <2>1, <2>4, <3>1 DEF Own
    <3>3. PICK a \in Approvals(h) : a.requestor = h.id
      BY <1>1, <2>9 DEF Passes
    <3>4. (CHOOSE b \in Approvals(h) : TRUE) = a
      BY ApprovalOwner
    <3>5. a \in approvals /\ Of(r.secret) \in DOMAIN Declared
      BY Holder DEF Approvals, Credentials
    <3>6. a.tenant = BoundOf(r.secret)
      BY <3>2, <3>3, <3>5 DEF Filed, IdOf, BoundOf
    <3>. QED BY <2>3, <2>9, <3>4, <3>6
  <2>10. CASE Step(r) = "approval_create"
    <3>1. PICK t \in Resolving : t \in known
      BY <2>1, <2>5, <2>10 DEF InOrder, Guarded
    <3>2. h.tenant = BoundOf(r.secret)
      BY <2>1, <2>4, <2>6, <3>1 DEF Own
    <3>. QED BY <2>3, <2>10, <3>2
  <2>11. CASE Step(r) = "approval_read"
    <3>1. "lookup_tenant" \in known
      BY <2>1, <2>5 DEF InOrder
    <3>2. h.bound = BoundOf(r.secret)
      BY <2>1, <2>4, <3>1 DEF Own
    <3>3. Approvals(h) # {} /\ ApprovalVisible(h)
      BY <1>1, <2>11 DEF Passes
    <3>4. PICK a \in Approvals(h) : a.tenant = BoundOf(r.secret)
      BY <3>2, <3>3 DEF ApprovalVisible
    <3>5. (CHOOSE b \in Approvals(h) : TRUE) = a
      BY ApprovalOwner
    <3>. QED BY <2>3, <2>11, <3>4, <3>5
  <2>12. ASSUME Step(r) \in Effects \ ({"service", "approval_create"} \cup ofApproval)
         PROVE  FALSE
    <3>1. r.op \in MfaOps \cup PolicyOps
      BY <2>1, <2>5, <2>12 DEF Belongs, Effects, PolicyOps
    <3>. QED BY <3>1 DEF ConfinedOps, KeyOps, NamingOps, MfaOps, PolicyOps
  <2>. QED BY <1>5, <2>7, <2>8, <2>9, <2>10, <2>11, <2>12
<1>. QED BY <1>4, <1>5

-----------------------------------------------------------------------------
(* One step of the system.                                                 *)

\* What a step of a handler changes besides its request.
Leaves(c) ==
    /\ Step(req[c]) = "policy_save" => stored' = stored \cup {req[c].policy}
    /\ Step(req[c]) = "policy_insert" => policies' = policies \cup {req[c].policy}
    /\ Step(req[c]) = "policy_delete" => stored' = stored \ {req[c].policy}
    /\ Step(req[c]) = "policy_remove" => policies' = policies \ {req[c].policy}
    /\ Step(req[c]) = "approval_tenant" => approvals' = approvals

\* What happens to a request in a step.
Moved(c) ==
    \/ req'[c] = req[c]
    \/ req[c].at = "idle" /\ \E q \in RequestsOf[c] : req'[c] = Request(q)
    \/ Running(c) /\ \E at \in {"refused", "dropped"} : req'[c] = Broken(req[c], at)
    \/ Running(c) /\ Passes(Step(req[c]), Ready(req[c])) /\ req'[c] = Advance(req[c]) /\ Leaves(c)

\* Nothing else happens to a request, and a restart leaves none running.
LEMMA Moves ==
    ASSUME IInv, [KmsNext]_kmsVars
    PROVE  /\ DOMAIN req' = Clients
           /\ \A c \in Clients : Moved(c)
           /\ Restart => \A c \in Clients : req'[c] = req[c] \/ req'[c].at = "dropped"
<1>20. DOMAIN req = Clients /\ \A c \in Clients : DOMAIN req[c] = Fields
  BY DEF IInv, Formed
<1>1. CASE UNCHANGED kmsVars
  <2>1. req' = req
    BY <1>1 DEF kmsVars, apiVars
  <2>. QED BY <1>20, <2>1 DEF Moved
<1>2. ASSUME NEW d \in Clients, NEW x, req' = [req EXCEPT ![d] = x]
      PROVE  DOMAIN req' = Clients /\ req'[d] = x /\ \A c \in Clients : c # d => req'[c] = req[c]
  BY <1>20, <1>2
<1>3. ASSUME NEW d \in Clients, Arrive(d)
      PROVE  DOMAIN req' = Clients /\ \A c \in Clients : Moved(c)
  <2>1. PICK q \in RequestsOf[d] : req' = [req EXCEPT ![d] = Request(q)] /\ req[d].at = "idle"
    BY <1>3 DEF Arrive
  <2>. QED BY <1>2, <2>1 DEF Moved
<1>4. ASSUME NEW d \in Clients, Refuse(d) \/ HangUp(d)
      PROVE  DOMAIN req' = Clients /\ \A c \in Clients : Moved(c)
  <2>1. PICK at \in {"refused", "dropped"} : req' = [req EXCEPT ![d] = Broken(req[d], at)] /\ Running(d)
    BY <1>4 DEF Refuse, HangUp
  <2>. QED BY <1>2, <2>1 DEF Moved
<1>5. ASSUME NEW d \in Clients, NEW s, Proceed(d, s), Leaves(d)
      PROVE  DOMAIN req' = Clients /\ \A c \in Clients : Moved(c)
  <2>1. /\ Running(d) /\ Step(req[d]) = s /\ Passes(Step(req[d]), Ready(req[d]))
        /\ req' = [req EXCEPT ![d] = Advance(req[d])]
    BY <1>5 DEF Proceed
  <2>. QED BY <1>2, <1>5, <2>1 DEF Moved
<1>6. ASSUME NEW d \in Clients, Check(d)
      PROVE  DOMAIN req' = Clients /\ \A c \in Clients : Moved(c)
  <2>1. PICK s \in Checks : Proceed(d, s)
    BY <1>6 DEF Check
  <2>2. Step(req[d]) = s /\ approvals' = approvals
    BY <1>6, <2>1 DEF Proceed, Check
  <2>3. Leaves(d)
    BY <2>2 DEF Leaves, Checks
  <2>. QED BY <1>5, <2>1, <2>3
<1>7. ASSUME NEW d \in Clients, NEW s \in {"service", "mfa_check"}, Proceed(d, s)
      PROVE  DOMAIN req' = Clients /\ \A c \in Clients : Moved(c)
  <2>1. Leaves(d)
    BY <1>7 DEF Leaves, Proceed
  <2>. QED BY <1>5, <1>7, <2>1
<1>8. ASSUME NEW d \in Clients, ChangePolicy(d)
      PROVE  DOMAIN req' = Clients /\ \A c \in Clients : Moved(c)
  <2>1. PICK s : /\ Proceed(d, s)
                 /\ \/ s = "policy_save" /\ save(req[d].policy)
                    \/ s = "policy_insert" /\ insert(req[d].policy)
                    \/ s = "policy_delete" /\ delete(req[d].policy)
                    \/ s = "policy_remove" /\ remove(req[d].policy)
    BY <1>8 DEF ChangePolicy
  <2>2. Step(req[d]) = s
    BY <2>1 DEF Proceed
  <2>3. Leaves(d)
    BY <2>1, <2>2 DEF Leaves, save, insert, delete, remove
  <2>. QED BY <1>5, <2>1, <2>3
<1>9. ASSUME NEW d \in Clients, ChangeApproval(d)
      PROVE  DOMAIN req' = Clients /\ \A c \in Clients : Moved(c)
  <2>1. PICK s \in {"approval_create", "approval_approve", "approval_reject", "approval_cancel"} : Proceed(d, s)
    BY <1>9 DEF ChangeApproval
  <2>2. Leaves(d)
    BY <2>1 DEF Leaves, Proceed
  <2>. QED BY <1>5, <2>1, <2>2
<1>10. ASSUME Lapse
       PROVE  DOMAIN req' = Clients /\ \A c \in Clients : Moved(c)
  BY <1>20, <1>10 DEF Lapse, Moved
<1>11. ASSUME Restart
       PROVE  /\ DOMAIN req' = Clients /\ \A c \in Clients : Moved(c)
              /\ \A c \in Clients : req'[c] = req[c] \/ req'[c].at = "dropped"
  <2>1. req' = [c \in Clients |-> IF Running(c) THEN Broken(req[c], "dropped") ELSE req[c]]
    BY <1>11 DEF Restart
  <2>2. \A c \in Clients : req'[c] = req[c] \/ (Running(c) /\ req'[c] = Broken(req[c], "dropped"))
    BY <2>1
  <2>3. \A c \in Clients : Broken(req[c], "dropped").at = "dropped"
    BY <1>20, BrokenIs DEF BrokenAs
  <2>. QED BY <2>1, <2>2, <2>3 DEF Moved
<1>. QED
  BY <1>1, <1>3, <1>4, <1>6, <1>7, <1>8, <1>9, <1>10, <1>11 DEF KmsNext, Serve, MfaCheck

\* The requests about a policy stay on record.
LEMMA OnRecord ==
    ASSUME IInv, [KmsNext]_kmsVars, NEW p
    PROVE  (Deleting(p) => Deleting(p)') /\ (Creating(p) => Creating(p)')
<1>1. ASSUME NEW c \in Clients, req[c].op \in {"delete_policy", "create_policy"}
      PROVE  req'[c].op = req[c].op /\ req'[c].policy = req[c].policy
  <2>1. Formed(req[c]) /\ Reached(req[c]) /\ Credentials /\ Moved(c)
    BY Moves DEF IInv
  <2>2. DOMAIN req[c] = Fields /\ req[c].at # "idle"
    BY <1>1, <2>1 DEF Formed
  <2>3. req[c].op \in PolicyOps
    BY <1>1 DEF PolicyOps
  <2>4. \A at : Kept(Broken(req[c], at), req[c])
    BY <2>2, <2>3, BrokenIs DEF BrokenAs
  <2>5. Running(c) => Kept(Advance(req[c]), req[c])
    BY <2>1, AdvanceFormed DEF Running
  <2>. QED BY <2>1, <2>2, <2>4, <2>5 DEF Moved, Kept
<1>. QED BY <1>1 DEF Deleting, Creating

\* A step of a handler is one of its operation's.
LEMMA StepBelongs ==
    ASSUME IInv, NEW c \in Clients, Running(c), Step(req[c]) # "answer"
    PROVE  Belongs(Step(req[c]), req[c].op)
<1>1. Credentials /\ Formed(req[c]) /\ req[c].at = "run" /\ Reached(req[c])
  BY DEF IInv, Running
<1>. QED BY <1>1, AdvanceBasis

\* A policy comes and goes with the requests about it, or with a restart.
LEMMA PolicyMoves ==
    ASSUME IInv, [KmsNext]_kmsVars, NEW p
    PROVE  /\ p \in stored' => p \in stored \/ Creating(p)
           /\ p \in stored => p \in stored' \/ Deleting(p)
           /\ ~Restart => (p \in policies' => p \in policies \/ Creating(p))
           /\ ~Restart => (p \in policies => p \in policies' \/ Deleting(p))
           /\ Restart => policies' = stored /\ stored' = stored
<1>1. ASSUME NEW c \in Clients, ChangePolicy(c)
      PROVE  /\ p \in stored' => p \in stored \/ Creating(p)
             /\ p \in stored => p \in stored' \/ Deleting(p)
             /\ p \in policies' => p \in policies \/ Creating(p)
             /\ p \in policies => p \in policies' \/ Deleting(p)
  <2>1. PICK s : /\ Proceed(c, s)
                 /\ \/ s = "policy_save" /\ save(req[c].policy)
                    \/ s = "policy_insert" /\ insert(req[c].policy)
                    \/ s = "policy_delete" /\ delete(req[c].policy)
                    \/ s = "policy_remove" /\ remove(req[c].policy)
    BY <1>1 DEF ChangePolicy
  <2>2. Step(req[c]) = s /\ Running(c)
    BY <2>1 DEF Proceed
  <2>3. Belongs(s, req[c].op)
    BY <2>1, <2>2, StepBelongs
  <2>4. /\ s \in {"policy_save", "policy_insert"} => Creating(req[c].policy)
        /\ s \in {"policy_delete", "policy_remove"} => Deleting(req[c].policy)
    BY <2>3 DEF Belongs, Creating, Deleting
  <2>. QED BY <2>1, <2>4 DEF save, insert, delete, remove
<1>2. CASE UNCHANGED policyVars
  BY <1>2 DEF policyVars, Restart, load_from_repository
<1>3. Restart => policies' = stored /\ stored' = stored
  BY DEF Restart, load_from_repository
<1>. QED
  BY <1>1, <1>2, <1>3
  DEF KmsNext, kmsVars, Arrive, Refuse, Check, Serve, MfaCheck, ChangeApproval, HangUp, Lapse

\* Approvals keep their ids and tenants; a new one has an id nobody named.
LEMMA ApprovalsStep ==
    ASSUME IInv, [KmsNext]_kmsVars
    PROVE  /\ Filed'
           /\ \A c \in Clients : \A b \in approvals' : b.id = req[c].approval =>
                \E a \in approvals : a.id = b.id /\ a.tenant = b.tenant
<1>. DEFINE Named == \A c \in Clients : \A b \in approvals' : b.id = req[c].approval =>
                       \E a \in approvals : a.id = b.id /\ a.tenant = b.tenant
            Keys6 == {"id", "op", "key", "tenant", "requestor", "status"}
<1>1. Filed
  BY DEF IInv
<1>2. ASSUME NEW a \in approvals, NEW st, SetStatus(a, st)
      PROVE  Filed' /\ Named
  <2>1. PICK z : z = [a EXCEPT !.status = st]
    OBVIOUS
  <2>2. DOMAIN a = Keys6
    BY <1>1 DEF Filed
  <2>3. DOMAIN z = Keys6 /\ z.id = a.id /\ z.tenant = a.tenant /\ z.requestor = a.requestor
    BY <2>1, <2>2
  <2>4. approvals' = (approvals \ {a}) \cup {z}
    BY <1>2, <2>1 DEF SetStatus
  <2>5. Filed'
    BY <1>1, <2>3, <2>4 DEF Filed
  <2>. QED BY <2>3, <2>4, <2>5
<1>3. ASSUME UNCHANGED approvals
      PROVE  Filed' /\ Named
  BY <1>1, <1>3 DEF Filed
<1>4. ASSUME approvals' = {}
      PROVE  Filed' /\ Named
  BY <1>4 DEF Filed
<1>5. ASSUME NEW c \in Clients, Proceed(c, "approval_create"), NEW i \in FreshIds,
             approvals' = approvals \cup {[id |-> i, op |-> Ready(req[c]).gated, key |-> Ready(req[c]).key,
                                           tenant |-> Ready(req[c]).tenant, requestor |-> Ready(req[c]).id,
                                           status |-> "pending"]}
      PROVE  Filed' /\ Named
  <2>1. PICK r : r = req[c]
    OBVIOUS
  <2>2. PICK h : h = Ready(r)
    OBVIOUS
  <2>3. Credentials /\ Formed(r) /\ r.at = "run" /\ Reached(r) /\ Step(r) = "approval_create"
    BY <1>5, <2>1 DEF IInv, Proceed, Running
  <2>4. PICK z : z = [id |-> i, op |-> h.gated, key |-> h.key, tenant |-> h.tenant, requestor |-> h.id, status |-> "pending"]
    OBVIOUS
  <2>5. DOMAIN z = Keys6 /\ z.id = i /\ z.tenant = h.tenant /\ z.requestor = h.id
    BY <2>4
  <2>6. approvals' = approvals \cup {z}
    BY <1>5, <2>1, <2>2, <2>4
  <2>7. \A a \in approvals : a.id # i
    BY <1>5 DEF FreshIds
  <2>8. \A d \in Clients : req[d].approval # i
    BY <1>5 DEF FreshIds
  <2>. DEFINE known == Passed(r) \cup Leading(r)
  <2>9. /\ InOrder(Prog(r), r.channel, r.op) /\ Kept(h, r)
        /\ \A s \in known : Own(s, h)
        /\ \A S, T : Behind(Prog(r), S, T) /\ Step(r) \in S /\ Step(r) # "answer" => \E t \in T : t \in known
    BY <2>2, <2>3, AdvanceBasis
  <2>10. Step(r) \in HandlerSteps /\ Step(r) # "answer"
    BY <2>3 DEF HandlerSteps, Effects
  <2>11. PICK t \in Resolving : t \in known
    BY <2>3, <2>9 DEF InOrder, Guarded
  <2>12. PICK n \in Naming : n \in known
    BY <2>9, <2>10 DEF InOrder
  <2>13. PICK p \in Permitting : p \in known
    BY <2>9, <2>10 DEF InOrder
  <2>14. Issued(h.secret) /\ h.id = IdOf(h.secret) /\ h.tenant = TenantFor(h)
    BY <2>9, <2>11, <2>12, <2>13 DEF Own
  <2>15. Of(h.secret) \in DOMAIN Declared
    BY <2>3, <2>14, Holder DEF Credentials
  <2>16. \A j \in DOMAIN Declared : h.id = Declared[j].id /\ Declared[j].tenant # Unbound => h.tenant = Declared[j].tenant
    <3>. SUFFICES ASSUME NEW j \in DOMAIN Declared, h.id = Declared[j].id, Declared[j].tenant # Unbound
                  PROVE  h.tenant = Declared[j].tenant
      OBVIOUS
    <3>1. j = Of(h.secret)
      BY <2>14, <2>15, DeclaredAssumption DEF IdOf
    <3>. QED BY <2>14, <3>1 DEF TenantFor, BoundOf
  <2>17. Filed'
    BY <1>1, <2>5, <2>6, <2>7, <2>16 DEF Filed
  <2>. QED BY <2>5, <2>6, <2>8, <2>17
<1>6. ASSUME NEW c \in Clients, ChangeApproval(c)
      PROVE  Filed' /\ Named
  <2>1. \/ /\ Proceed(c, "approval_create")
           /\ \E i \in FreshIds :
                approvals' = approvals \cup {[id |-> i, op |-> Ready(req[c]).gated, key |-> Ready(req[c]).key,
                                              tenant |-> Ready(req[c]).tenant, requestor |-> Ready(req[c]).id,
                                              status |-> "pending"]}
        \/ \E a \in Approvals(Ready(req[c])), st \in {"approved", "pending", Rejected, "cancelled"} : SetStatus(a, st)
    BY <1>6 DEF ChangeApproval
  <2>. QED BY <1>2, <1>5, <2>1 DEF Approvals
<1>7. ASSUME Lapse
      PROVE  Filed' /\ Named
  BY <1>2, <1>3, <1>7 DEF Lapse
<1>8. ASSUME Restart
      PROVE  Filed' /\ Named
  BY <1>4, <1>8 DEF Restart
<1>. HIDE DEF Named
<1>9. Filed' /\ Named
  BY <1>3, <1>6, <1>7, <1>8
  DEF KmsNext, kmsVars, apiVars, Arrive, Refuse, Check, Serve, MfaCheck, ChangePolicy, HangUp
<1>. QED BY <1>9 DEF Named

\* A step that is behind has behind it what its program puts there.
LEMMA PassedBehind ==
    ASSUME NEW r, Suffix(r), Prog(r) \in Seq(Steps), NEW S, NEW T, Behind(Prog(r), S, T), NEW s \in Passed(r), s \in S
    PROVE  \E t \in T : t \in Passed(r)
<1>1. PICK d \in Nat : d = Done(r)
  BY DEF Suffix
<1>2. PICK j \in 1..d : s = Prog(r)[j]
  BY <1>1 DEF Passed
<1>3. PICK m \in Nat : m = Len(Prog(r)) /\ DOMAIN Prog(r) = 1..m
  BY LenProperties
<1>4. d <= m
  <2>1. PICK l \in Nat : l = Len(r.todo)
    BY LenProperties DEF Suffix
  <2>2. d = m - l
    BY <1>1, <1>3, <2>1 DEF Done
  <2>. QED BY <2>1, <2>2
<1>5. j \in DOMAIN Prog(r)
  BY <1>3, <1>4
<1>6. PICK i \in DOMAIN Prog(r) : i < j /\ Prog(r)[i] \in T
  BY <1>2, <1>5 DEF Behind
<1>7. i \in 1..d
  BY <1>3, <1>6
<1>. QED BY <1>1, <1>6, <1>7 DEF Passed

\* What a step has established about approvals and policies outlasts the
\* steps of the others, and a restart once the request is answered.
LEMMA WorldKept ==
    ASSUME IInv, [KmsNext]_kmsVars, NEW c \in Clients, Active(req[c]), Active(req[c])', Kept(req'[c], req[c]),
           NEW s \in Passed(req[c])
    PROVE  World(s, req[c])'
<1>1. PICK r : r = req[c]
  OBVIOUS
<1>2. PICK g : g = req'[c]
  OBVIOUS
<1>3. World(s, r) /\ Formed(r)
  BY <1>1 DEF IInv, Reached
<1>4. g.secret = r.secret /\ g.approval = r.approval /\ g.policy = r.policy
  BY <1>1, <1>2 DEF Kept
<1>5. s = "approval_tenant" /\ Issued(g.secret) /\ BoundOf(g.secret) # Unbound =>
        \A b \in approvals' : b.id = g.approval => b.tenant = BoundOf(g.secret)
  <2>. SUFFICES ASSUME s = "approval_tenant", Issued(g.secret), BoundOf(g.secret) # Unbound,
                       NEW b \in approvals', b.id = g.approval
                PROVE  b.tenant = BoundOf(g.secret)
    OBVIOUS
  <2>1. PICK a \in approvals : a.id = b.id /\ a.tenant = b.tenant
    BY <1>1, <1>4, ApprovalsStep
  <2>. QED BY <1>3, <1>4, <2>1 DEF World, Approvals
<1>6. PICK p : p = r.policy
  OBVIOUS
<1>7. (Deleting(p) => Deleting(p)') /\ (Creating(p) => Creating(p)')
  BY OnRecord
<1>8. /\ p \in stored' => p \in stored \/ Creating(p)
      /\ p \in stored => p \in stored' \/ Deleting(p)
      /\ ~Restart => (p \in policies' => p \in policies \/ Creating(p))
      /\ ~Restart => (p \in policies => p \in policies' \/ Deleting(p))
      /\ Restart => policies' = stored /\ stored' = stored
  BY PolicyMoves
<1>9. /\ s = "policy_save" => p \in stored \/ Deleting(p)
      /\ s = "policy_insert" => p \in policies \/ Deleting(p)
      /\ s = "policy_delete" => p \notin stored \/ Creating(p)
      /\ s = "policy_remove" => p \notin policies \/ Creating(p)
  BY <1>3, <1>6 DEF World
<1>10. /\ s = "policy_insert" => p \in stored \/ Deleting(p)
       /\ s = "policy_remove" => p \notin stored \/ Creating(p)
  <2>1. InOrder(Prog(r), r.channel, r.op) /\ Suffix(r)
    BY <1>1, <1>3, Programs DEF Formed, Prog
  <2>2. s = "policy_insert" => "policy_save" \in Passed(r)
    BY <1>1, <2>1, PassedBehind DEF InOrder, Guarded
  <2>3. s = "policy_remove" => "policy_delete" \in Passed(r)
    BY <1>1, <2>1, PassedBehind DEF InOrder, Guarded
  <2>4. \A t \in Passed(r) : World(t, r)
    BY <1>1 DEF IInv, Reached
  <2>. QED BY <1>6, <2>2, <2>3, <2>4 DEF World
<1>11. /\ s = "policy_save" => p \in stored' \/ Deleting(p)'
       /\ s = "policy_insert" => p \in policies' \/ Deleting(p)'
       /\ s = "policy_delete" => p \notin stored' \/ Creating(p)'
       /\ s = "policy_remove" => p \notin policies' \/ Creating(p)'
  BY <1>7, <1>8, <1>9, <1>10
<1>. QED BY <1>2, <1>4, <1>5, <1>6, <1>11 DEF World, Approvals

\* The facts of a request only grow until it takes effect, and then stay.
LEMMA FactsStep ==
    ASSUME IInv, [KmsNext]_kmsVars, NEW c \in Clients
    PROVE  /\ req'[c].effect => facts'[c] = facts[c]
           /\ req'[c].at = "run" => facts[c] \subseteq facts'[c]
           /\ req'[c].at = "run" /\ ~req'[c].effect => FactsNow(req[c])' \subseteq facts'[c]
<1>1. CASE KmsNext
  <2>1. facts' = [d \in Clients |->
                    IF req'[d].effect THEN facts[d]
                    ELSE IF req'[d].at = "run" THEN facts[d] \cup FactsNow(req[d])' ELSE {}]
    BY <1>1 DEF KmsNext, Observe
  <2>. QED BY <2>1
<1>2. CASE UNCHANGED kmsVars
  <2>1. /\ creds' = creds /\ policies' = policies /\ approvals' = approvals /\ store' = store
        /\ req' = req /\ facts' = facts
    BY <1>2 DEF kmsVars, credVars, policyVars, apiVars
  <2>2. Running(c) /\ ~req[c].effect => FactsNow(req[c]) \subseteq facts[c]
    BY DEF IInv
  <2>3. FactsNow(req[c])' = FactsNow(req[c])
    BY <2>1 DEF FactsNow, Credential, WithSecret, PolicyAllows, TenantOf, Approved, Owned
  <2>. QED BY <2>1, <2>2, <2>3 DEF Running
<1>. QED BY <1>1, <1>2

\* A request that has just arrived.
LEMMA Arrived ==
    ASSUME NEW c \in Clients, NEW q \in RequestsOf[c]
    PROVE  LET g == Request(q) IN
           /\ Formed(g) /\ Passed(g) = {} /\ g.effect = FALSE /\ g.at = "run"
<1>1. PICK g : g = Request(q)
  OBVIOUS
<1>2. /\ DOMAIN g = Fields /\ g.at = "run" /\ g.channel = q.channel /\ g.op = q.op
      /\ g.todo = Program(q.channel, q.op) /\ g.effect = FALSE
  BY <1>1, RequestIs
<1>3. Served(g.channel, g.op)
  BY <1>2, RequestsAssumption DEF Served
<1>4. g.todo = Prog(g) /\ g.todo \in Seq(Steps)
  BY <1>2, <1>3, Programs DEF Prog, InOrder
<1>5. PICK n \in Nat : n = Len(g.todo)
  BY <1>4, LenProperties
<1>6. Done(g) = 0
  BY <1>4, <1>5 DEF Done
<1>7. Suffix(g)
  BY <1>4, <1>5, <1>6 DEF Suffix
<1>8. Passed(g) = {}
  BY <1>6 DEF Passed
<1>9. Formed(g)
  BY <1>2, <1>3, <1>7 DEF Formed
<1>. QED BY <1>1, <1>2, <1>8, <1>9

\* A step keeps what the invariant says of each request.
LEMMA RequestStep ==
    ASSUME IInv, [KmsNext]_kmsVars, NEW c \in Clients
    PROVE  /\ Formed(req[c])'
           /\ Reached(req[c])'
           /\ Justified(req[c], facts[c])'
           /\ Confined(req[c])'
           /\ (Running(c) /\ ~req[c].effect => FactsNow(req[c]) \subseteq facts[c])'
<1>1. PICK r : r = req[c]
  OBVIOUS
<1>2. PICK g : g = req'[c]
  OBVIOUS
<1>3. /\ Credentials /\ Filed /\ Formed(r) /\ Reached(r) /\ Justified(r, facts[c]) /\ Confined(r)
      /\ r.at = "run" /\ ~r.effect => FactsNow(r) \subseteq facts[c]
  BY <1>1 DEF IInv, Running
<1>4. /\ g.effect => facts'[c] = facts[c]
      /\ g.at = "run" => facts[c] \subseteq facts'[c]
      /\ (Running(c) /\ ~req[c].effect => FactsNow(req[c]) \subseteq facts[c])'
  BY <1>2, FactsStep DEF Running
<1>5. DOMAIN r = Fields /\ r.effect \in BOOLEAN
  BY <1>3 DEF Formed
<1>6. ASSUME Formed(g), \A s \in Passed(g) : Active(g) => Own(s, g) /\ World(s, req[c])',
             g.at = "run" => \A s \in Passed(g) : Granted(s, g, facts[c]),
             g.effect => Required(g.op) \subseteq facts[c], Confined(g)
      PROVE  Formed(req[c])' /\ Reached(req[c])' /\ Justified(req[c], facts[c])' /\ Confined(req[c])'
  <2>1. Reached(req[c])'
    BY <1>2, <1>6 DEF Reached
  <2>2. g.at = "run" => \A s \in Passed(g) : Granted(s, g, facts'[c])
    BY <1>4, <1>6 DEF Granted
  <2>3. Justified(req[c], facts[c])'
    BY <1>2, <1>4, <1>6, <2>2 DEF Justified
  <2>. QED BY <1>2, <1>6, <2>1, <2>3
<1>7. CASE g = r
  <2>1. Kept(g, r)
    BY <1>5, <1>7 DEF Kept
  <2>2. ASSUME Active(g), NEW s \in Passed(g)
        PROVE  Own(s, g) /\ World(s, req[c])'
    <3>1. Active(req[c]) /\ Active(req[c])' /\ Kept(req'[c], req[c]) /\ s \in Passed(req[c])
      BY <1>1, <1>2, <1>7, <2>1, <2>2 DEF Active
    <3>2. World(s, req[c])'
      BY <3>1, WorldKept
    <3>3. Own(s, g)
      BY <1>3, <1>7, <2>2 DEF Reached
    <3>. QED BY <3>2, <3>3
  <2>3. /\ g.at = "run" => \A s \in Passed(g) : Granted(s, g, facts[c])
        /\ g.effect => Required(g.op) \subseteq facts[c]
    BY <1>3, <1>7 DEF Justified
  <2>. QED BY <1>3, <1>4, <1>6, <1>7, <2>2, <2>3
<1>8. ASSUME NEW q \in RequestsOf[c], g = Request(q)
      PROVE  Formed(req[c])' /\ Reached(req[c])' /\ Justified(req[c], facts[c])' /\ Confined(req[c])'
  <2>1. Formed(g) /\ Passed(g) = {} /\ g.effect = FALSE
    BY <1>8, Arrived
  <2>2. Confined(g)
    BY <2>1 DEF Confined
  <2>. QED BY <1>6, <2>1, <2>2
<1>9. ASSUME NEW at \in {"refused", "dropped"}, g = Broken(r, at)
      PROVE  Formed(req[c])' /\ Reached(req[c])' /\ Justified(req[c], facts[c])' /\ Confined(req[c])'
  <2>1. /\ DOMAIN g = Fields /\ g.at = at
        /\ r.effect \/ r.op \in PolicyOps => Kept(g, r) /\ g.effect = r.effect /\ g.owner = r.owner
        /\ ~(r.effect \/ r.op \in PolicyOps) => g.effect = FALSE /\ g.op = "metrics"
    <3>1. BrokenAs(g, r, at)
      BY <1>5, <1>9, BrokenIs
    <3>. QED BY <3>1 DEF BrokenAs
  <2>2. ~Active(g) /\ g.at # "run" /\ g.at # "idle" /\ g.at # "answered"
    BY <2>1 DEF Active
  <2>3. g.effect \in BOOLEAN /\ (g.effect => r.effect /\ Kept(g, r) /\ g.owner = r.owner)
    BY <1>5, <2>1
  <2>4. g.effect => g.op = r.op /\ g.secret = r.secret
    BY <2>3 DEF Kept
  <2>5. Formed(g)
    BY <1>3, <2>1, <2>2, <2>3, <2>4 DEF Formed
  <2>6. Confined(g)
    BY <1>3, <2>3, <2>4 DEF Confined
  <2>7. g.effect => Required(g.op) \subseteq facts[c]
    BY <1>3, <2>3, <2>4 DEF Justified
  <2>. QED BY <1>6, <2>2, <2>5, <2>6, <2>7
<1>10. ASSUME r.at = "run", Passes(Step(r), Ready(r)), g = Advance(r), Leaves(c)
       PROVE  Formed(req[c])' /\ Reached(req[c])' /\ Justified(req[c], facts[c])' /\ Confined(req[c])'
  <2>1. Formed(g) /\ Kept(g, r)
    BY <1>3, <1>10, AdvanceFormed
  <2>2. Confined(g)
    BY <1>3, <1>10, AdvanceConfined
  <2>3. g.effect => Required(g.op) \subseteq facts[c]
    BY <1>3, <1>10, AdvanceAuthorised
  <2>4. \A s \in Passed(g) : Granted(s, g, facts[c])
    BY <1>3, <1>10, AdvanceGranted
  <2>5. \A s \in Passed(g) : Own(s, g)
    BY <1>3, <1>10, AdvanceOwn
  <2>. DEFINE known == Passed(r) \cup Leading(r)
  <2>6. /\ Passed(g) \subseteq known \cup ({Step(r)} \ {"answer"}) /\ Leading(r) \subseteq Local
        /\ InOrder(Prog(r), r.channel, r.op)
        /\ Step(r) # "answer" => Belongs(Step(r), r.op)
        /\ \A s \in known : Own(s, Ready(r))
        /\ \A S, T : Behind(Prog(r), S, T) /\ Step(r) \in S /\ Step(r) # "answer" => \E t \in T : t \in known
        /\ Kept(Ready(r), r)
    BY <1>3, <1>10, AdvanceBasis
  <2>7. ASSUME NEW s \in Passed(r), Active(g)
        PROVE  World(s, req[c])'
    <3>1. Active(req[c]) /\ Active(req[c])' /\ Kept(req'[c], req[c]) /\ s \in Passed(req[c])
      BY <1>1, <1>2, <1>10, <2>1, <2>7 DEF Active
    <3>. QED BY <3>1, WorldKept
  <2>8. ASSUME NEW s \in Local
        PROVE  World(s, req[c])'
    BY <2>8 DEF World, Local
  <2>9. Step(r) # "answer" => World(Step(r), req[c])'
    <3>1. g.policy = r.policy /\ g.approval = r.approval /\ g.secret = r.secret
      BY <2>1 DEF Kept
    <3>2. /\ Step(r) = "policy_save" => r.policy \in stored'
          /\ Step(r) = "policy_insert" => r.policy \in policies'
          /\ Step(r) = "policy_delete" => r.policy \notin stored'
          /\ Step(r) = "policy_remove" => r.policy \notin policies'
          /\ Step(r) = "approval_tenant" => approvals' = approvals
      BY <1>1, <1>10 DEF Leaves
    <3>3. ASSUME Step(r) = "approval_tenant", Issued(r.secret), BoundOf(r.secret) # Unbound
          PROVE  \A a \in approvals' : a.id = r.approval => a.tenant = BoundOf(r.secret)
      <4>1. Step(r) \in HandlerSteps /\ Step(r) # "answer"
        BY <3>3 DEF HandlerSteps
      <4>2. "lookup_tenant" \in known
        BY <2>6, <4>1 DEF InOrder
      <4>3. Ready(r).secret = r.secret /\ Ready(r).approval = r.approval
        BY <2>6 DEF Kept
      <4>4. Ready(r).bound = BoundOf(r.secret)
        BY <2>6, <3>3, <4>2, <4>3 DEF Own
      <4>5. ApprovalVisible(Ready(r))
        BY <1>10, <3>3 DEF Passes
      <4>. QED BY <3>2, <3>3, <4>3, <4>4, <4>5 DEF ApprovalVisible, Approvals
    <3>. QED BY <1>2, <3>1, <3>2, <3>3 DEF World, Approvals
  <2>10. \A s \in Passed(g) : Active(g) => Own(s, g) /\ World(s, req[c])'
    BY <2>5, <2>6, <2>7, <2>8, <2>9
  <2>. QED BY <1>6, <2>1, <2>2, <2>3, <2>4, <2>10
<1>11. Moved(c)
  BY Moves
<1>12. Formed(req[c])' /\ Reached(req[c])' /\ Justified(req[c], facts[c])' /\ Confined(req[c])'
  BY <1>1, <1>2, <1>7, <1>8, <1>9, <1>10, <1>11 DEF Moved, Running
<1>. QED BY <1>4, <1>12

\* The initial states satisfy the invariant.
LEMMA Initial ==
    ASSUME KmsInit
    PROVE  IInv
<1>1. Credentials
  <2>1. creds = [i \in DOMAIN Declared |->
                   NewKey(Declared[i].id, Declared[i].secret, Declared[i].role, Declared[i].tenant)]
    BY DEF KmsInit, CredsInit
  <2>. QED BY <2>1, Declaration DEF Credentials, CredShape, NewKey
<1>2. Filed
  <2>1. approvals = InitialApprovals
    BY DEF KmsInit
  <2>2. \A a \in approvals : a \in [id : ApprovalIds, op : GatedOps, key : Keys, tenant : Tenants,
                                    requestor : STRING, status : STRING]
    BY <2>1, ApprovalsAssumption
  <2>. QED BY <2>1, <2>2, ApprovalsAssumption DEF Filed
<1>3. DOMAIN req = Clients /\ \A c \in Clients : req[c] = Ended("idle")
  BY DEF KmsInit
<1>4. PICK g : g = Ended("idle")
  OBVIOUS
<1>5. DOMAIN g = Fields /\ g.at = "idle" /\ g.effect = FALSE /\ g.op = "metrics"
  BY <1>4, EndedIs
<1>6. Formed(g) /\ Reached(g) /\ Confined(g) /\ \A F : Justified(g, F)
  BY <1>5 DEF Formed, Reached, Active, Confined, Justified
<1>. QED BY <1>1, <1>2, <1>3, <1>4, <1>5, <1>6 DEF IInv, Running

\* The invariant is inductive.
LEMMA Inductive ==
    ASSUME IInv, [KmsNext]_kmsVars
    PROVE  IInv'
<1>1. Credentials'
  BY CredentialsStep DEF IInv
<1>2. Filed'
  BY ApprovalsStep
<1>3. DOMAIN req' = Clients
  BY Moves
<1>4. \A c \in Clients :
        /\ Formed(req[c])'
        /\ Reached(req[c])'
        /\ Justified(req[c], facts[c])'
        /\ Confined(req[c])'
        /\ (Running(c) /\ ~req[c].effect => FactsNow(req[c]) \subseteq facts[c])'
  BY RequestStep
<1>. QED BY <1>1, <1>2, <1>3, <1>4 DEF IInv

-----------------------------------------------------------------------------
(* The theorems.                                                           *)

\* In every reachable state each request is in order: it has behind it what the
\* program of its handler puts there, and what those steps established still
\* holds.
THEOREM Invariant == KmsSpec => []IInv
  BY Initial, Inductive, PTL DEF KmsSpec

\* No request takes effect on authority older than the request: the credential,
\* the policies, the approval and the ownership of the key held while it ran,
\* for every handler of both channels, however credentials are locked, policies
\* and approvals changed and the server restarted in between.
THEOREM AuthorityIsFresh == KmsSpec => []Authorised
<1>1. IInv => Authorised
  BY DEF IInv, Justified, Authorised
<1>. QED BY <1>1, Invariant, PTL

\* A caller whose API key is bound to a tenant acts on nothing of another one,
\* whatever tenant it claims: the owner of the key or approval it took effect
\* on is the tenant of its API key.
THEOREM TenantsAreConfined == KmsSpec => []TenantConfined
<1>1. IInv => TenantConfined
  <2>. SUFFICES ASSUME IInv, NEW c \in Clients, NEW k \in Credential(req[c]), req[c].effect, k.tenant # Unbound,
                       req[c].op \in KeyOps \cup NamingOps \cup
                                     {"list_keys", "create_approval_request", "get_approval_request",
                                      "approve_request", "reject_request", "cancel_request"}
                PROVE  req[c].owner = k.tenant
    BY DEF TenantConfined
  <2>1. Credentials /\ Confined(req[c])
    BY DEF IInv
  <2>2. Issued(req[c].secret)
    BY <2>1, Stranger DEF Credential
  <2>3. k = creds[Of(req[c].secret)]
    BY <2>1, <2>2, ActsFor
  <2>4. k.tenant = BoundOf(req[c].secret)
    BY <2>1, <2>2, <2>3, Holder
  <2>. QED BY <2>1, <2>2, <2>4 DEF Confined, ConfinedOps
<1>. QED BY <1>1, Invariant, PTL

\* Once a request is answered the whole of its program is behind it.
LEMMA AnsweredIsDone ==
    ASSUME NEW r, Formed(r), r.at = "answered"
    PROVE  /\ InOrder(Prog(r), r.channel, r.op)
           /\ \A s : Has(Prog(r), s) => s \in Passed(r)
<1>1. Served(r.channel, r.op) /\ Suffix(r) /\ r.todo = <<>>
  BY DEF Formed, Active
<1>2. InOrder(Prog(r), r.channel, r.op)
  BY <1>1, Programs DEF Prog
<1>3. PICK m \in Nat : m = Len(Prog(r)) /\ DOMAIN Prog(r) = 1..m
  BY <1>2, LenProperties DEF InOrder
<1>4. Len(r.todo) = 0
  BY <1>1, EmptySeq
<1>5. Done(r) = m
  BY <1>3, <1>4 DEF Done
<1>. QED BY <1>2, <1>3, <1>5 DEF Has, Passed

\* An operation that took effect and was answered has left its audit event,
\* the silent reads aside, on both channels.
THEOREM AnswersAreAudited == KmsSpec => []AnsweredIsAudited
<1>1. IInv => AnsweredIsAudited
  <2>. SUFFICES ASSUME IInv, NEW c \in Clients, req[c].at = "answered", req[c].effect, ~Silent(req[c])
                PROVE  req[c].audited
    BY DEF AnsweredIsAudited
  <2>1. PICK r : r = req[c]
    OBVIOUS
  <2>2. Formed(r) /\ Reached(r)
    BY <2>1 DEF IInv
  <2>3. InOrder(Prog(r), r.channel, r.op) /\ \A s : Has(Prog(r), s) => s \in Passed(r)
    BY <2>1, <2>2, AnsweredIsDone
  <2>5. ~Silent([channel |-> r.channel, op |-> r.op])
    BY <2>1 DEF Silent
  <2>6. "audit" \in Passed(r)
    BY <2>3, <2>5 DEF InOrder, Complete
  <2>. QED BY <2>1, <2>2, <2>6 DEF Reached, Active, Own
<1>. QED BY <1>1, Invariant, PTL

\* A policy whose creation was answered is in force and stored until a deletion
\* is asked for; one whose deletion was answered is neither until a creation is.
THEOREM PoliciesAreDurable == KmsSpec => []PolicyDurable
<1>1. IInv => PolicyDurable
  <2>. SUFFICES ASSUME IInv, NEW c \in Clients, req[c].at = "answered"
                PROVE  /\ req[c].op = "create_policy" /\ ~Deleting(req[c].policy)
                            => req[c].policy \in policies /\ req[c].policy \in stored
                       /\ req[c].op = "delete_policy" /\ ~Creating(req[c].policy)
                            => req[c].policy \notin policies \cup stored
    BY DEF PolicyDurable
  <2>1. PICK r : r = req[c]
    OBVIOUS
  <2>2. Formed(r) /\ Reached(r) /\ Suffix(r)
    BY <2>1 DEF IInv, Formed, Active
  <2>3. InOrder(Prog(r), r.channel, r.op) /\ \A s : Has(Prog(r), s) => s \in Passed(r)
    BY <2>1, <2>2, AnsweredIsDone
  <2>4. r.op = "create_policy" => {"policy_insert", "policy_save"} \subseteq Passed(r)
    <3>1. r.op = "create_policy" => "policy_insert" \in Passed(r)
      BY <2>3 DEF InOrder, Complete
    <3>2. "policy_insert" \in Passed(r) => "policy_save" \in Passed(r)
      BY <2>2, <2>3, PassedBehind DEF InOrder, Guarded
    <3>. QED BY <3>1, <3>2
  <2>5. r.op = "delete_policy" => {"policy_remove", "policy_delete"} \subseteq Passed(r)
    <3>1. r.op = "delete_policy" => "policy_remove" \in Passed(r)
      BY <2>3 DEF InOrder, Complete
    <3>2. "policy_remove" \in Passed(r) => "policy_delete" \in Passed(r)
      BY <2>2, <2>3, PassedBehind DEF InOrder, Guarded
    <3>. QED BY <3>1, <3>2
  <2>6. \A s \in Passed(r) : World(s, r)
    BY <2>1, <2>2 DEF Reached, Active
  <2>. QED BY <2>1, <2>4, <2>5, <2>6 DEF World
<1>. QED BY <1>1, Invariant, PTL

\* The gates of a shared operation in a program of either channel.
LEMMA GatesOf ==
    ASSUME NEW channel \in {"rest", "grpc"}, NEW op \in SharedOps, NEW s \in Gates
    PROVE  Has(Program(channel, op), s) <=>
             \/ s = (IF channel = "rest" THEN "has_permission" ELSE "check_permission")
             \/ s \in {"pbac", "service"}
             \/ s = "require_approved" /\ op \in GatedOps
             \/ s = "own_key" /\ op = "dh_derive"
<1>1. PICK p : p = Program(channel, op)
  OBVIOUS
<1>2. InOrder(p, channel, op)
  BY <1>1, Programs DEF Served, RestOps
<1>3. \A t : Has(p, t) => Belongs(t, op) /\ Fits(t, channel)
  BY <1>2 DEF InOrder, Has
<1>4. Has(p, "service") /\ (op = "dh_derive" => Has(p, "own_key"))
      /\ Has(p, IF channel = "rest" THEN "has_permission" ELSE "check_permission")
  BY <1>2 DEF InOrder, Complete
<1>5. Has(p, "pbac")
  BY <1>2, <1>4 DEF InOrder, Guarded, Behind, Has
<1>6. op \in GatedOps => Has(p, "require_approved")
  BY <1>2, <1>4 DEF InOrder, Guarded, Behind, Has
<1>7. Has(p, s) => \/ s = (IF channel = "rest" THEN "has_permission" ELSE "check_permission")
                   \/ s \in {"pbac", "service"}
                   \/ s = "require_approved" /\ op \in GatedOps
                   \/ s = "own_key" /\ op = "dh_derive"
  <2>1. op # "create_approval_request"
    BY DEF SharedOps, KeyOps, NamingOps, TenantlessOps, Sm9Ops
  <2>. QED BY <1>3, <2>1 DEF Gates, Belongs, Fits
<1>. QED BY <1>1, <1>4, <1>5, <1>6, <1>7

\* REST and gRPC ask a request for the same authority.
THEOREM ChannelsAskTheSame == KmsSpec => []ChannelsAgree
<1>1. IInv => ChannelsAgree
  <2>. SUFFICES ASSUME IInv, NEW c \in Clients, req[c].op \in SharedOps, validate(req[c].secret) # {}
                PROVE  GatesPass("rest", req[c]) = GatesPass("grpc", req[c])
    BY DEF ChannelsAgree
  <2>1. PICK r : r = req[c] /\ DOMAIN r = Fields /\ Credentials
    BY DEF IInv, Formed
  <2>2. Issued(r.secret)
    BY <2>1, Stranger
  <2>3. /\ validate(r.secret) = {creds[Of(r.secret)]}
        /\ creds[Of(r.secret)].role = RoleOf(r.secret) /\ RoleOf(r.secret) \in Roles
    BY <2>1, <2>2, Holder DEF CredShape
  <2>4. PICK h : h = Resolved(r)
    OBVIOUS
  <2>5. h.role = RoleOf(r.secret) /\ h.secret = r.secret /\ h.op = r.op
    <3>1. PICK k : k = CHOOSE x \in validate(r.secret) : TRUE
      OBVIOUS
    <3>2. k = creds[Of(r.secret)]
      BY <2>3, <3>1
    <3>3. h = [r EXCEPT !.id = k.id, !.bound = k.tenant, !.role = k.role, !.tenant = TenantOf(r)]
      BY <2>4, <3>1 DEF Resolved
    <3>. QED BY <2>1, <2>3, <3>2, <3>3 DEF Fields
  <2>6. Passes("has_permission", h) <=> satisfies(RoleOf(r.secret), create_routes(r.op))
    BY <2>3, <2>5 DEF Passes, has_permission
  <2>7. Passes("check_permission", h) <=> satisfies(RoleOf(r.secret), Grpc[r.op].permission)
    BY <2>5 DEF Passes
  <2>8. Passes("has_permission", h) <=> Passes("check_permission", h)
    BY <2>1, <2>3, <2>6, <2>7, Permissions
  <2>9. \A channel : GatesPass(channel, r) <=> \A s \in Gates : Has(Program(channel, r.op), s) => Passes(s, h)
    BY <2>4 DEF GatesPass, Has
  <2>10. \A s \in Gates : /\ Has(Program("rest", r.op), s) /\ s # "has_permission" => Has(Program("grpc", r.op), s)
                          /\ Has(Program("grpc", r.op), s) /\ s # "check_permission" => Has(Program("rest", r.op), s)
    BY <2>1, GatesOf
  <2>11. Has(Program("rest", r.op), "has_permission") /\ Has(Program("grpc", r.op), "check_permission")
    BY <2>1, GatesOf DEF Gates
  <2>12. GatesPass("rest", r) <=> GatesPass("grpc", r)
    BY <2>8, <2>9, <2>10, <2>11 DEF Gates
  <2>13. GatesPass("rest", r) \in BOOLEAN /\ GatesPass("grpc", r) \in BOOLEAN
    BY DEF GatesPass
  <2>. QED BY <2>1, <2>12, <2>13
<1>. QED BY <1>1, Invariant, PTL

=============================================================================
