------------------------------- MODULE KmsApi -------------------------------
(***************************************************************************)
(* The request pipeline of crates/kms-api: the routes and handlers of      *)
(* rest.rs and grpc.rs over ApiKeys, PolicyEngine, the approvals and the   *)
(* key store.                                                              *)
(*                                                                         *)
(* A handler is written as the sequence of its steps.  A step whose        *)
(* condition fails answers the request with an error there and then; the   *)
(* last one answers it with success.  Steps that touch nothing others      *)
(* change are taken together with the step they lead up to; between two    *)
(* such groups other requests, the clock and a restart may come, and the   *)
(* client may hang up, which drops the handler where it stands.            *)
(*                                                                         *)
(* The services are one step here (KeyServices has their insides), the     *)
(* approval engine is its verdicts (ApprovalEngine has the quorum), and    *)
(* metrics are left out.                                                   *)
(***************************************************************************)
EXTENDS ApiKeys, PolicyEngine

CONSTANTS
    Clients,        \* one request each
    RequestsOf,     \* client -> [channel, op, secret, self, key, policy, gated, approval]
    Keys,           \* key ids, and the names keys are created under
    Owners,         \* key -> tenant of the keys there are at the start
    Tenants,
    InitialPolicies,
    ApprovalIds,    \* ids of approval requests
    InitialApprovals, \* approval requests: [id, op, key, tenant, requestor, status]
    MaxRestarts     \* bound: restarts of the server

VARIABLES
    store,       \* key -> tenant, for the keys that exist
    approvals,   \* the approval requests, each with its id
    req,         \* client -> its request
    facts,       \* client -> what was true while its request ran (history)
    restarts

apiVars == <<store, approvals, req, facts, restarts>>
kmsVars == <<credVars, policyVars, apiVars>>

-----------------------------------------------------------------------------
(* Operations.                                                             *)

KeyOps == {"get_key", "encrypt", "decrypt", "sign", "verify", "hmac", "hmac_verify",
           "envelope_encrypt", "envelope_decrypt", "envelope_rewrap", "dh_derive",
           "rotate_key", "delete_key", "export_key"}
NamingOps == {"create_key", "import_key"}
Sm9Ops == {"sm9_sign", "sm9_verify", "sm9_encrypt", "sm9_decrypt"}
TenantlessOps == Sm9Ops \cup {"hash", "query_audit_events"}
SharedOps == KeyOps \cup NamingOps \cup TenantlessOps \cup {"list_keys"}
MfaOps == {"mfa_setup", "mfa_verify", "mfa_verify_backup", "mfa_status"}
PolicyOps == {"create_policy", "get_policy", "list_policies", "delete_policy"}
ApprovalOps == {"create_approval_request", "list_pending_approvals", "get_approval_request",
                "approve_request", "reject_request", "cancel_request"}
RestOps == SharedOps \cup MfaOps \cup PolicyOps \cup ApprovalOps \cup {"metrics"}

\* parse_operation and is_approved: the operations an approval is asked for.
GatedOps == {"rotate_key", "delete_key", "export_key"}

\* What the policy is asked about.
ResourceOf(r) ==
    CASE r.op = "list_keys" -> "keys"
      [] r.op = "hash" -> "hash"
      [] r.op = "query_audit_events" -> "audit"
      [] OTHER -> r.key
Context(r) == [subject |-> r.id, tenant |-> r.tenant, action |-> r.op, resource |-> ResourceOf(r)]

-----------------------------------------------------------------------------
(* REST: the permission of each route group and the steps of each handler. *)

policy_routes_Open == AUTHENTICATED    \* mutant: any valid key may change the policies
policy_routes == "MANAGE_POLICY"
create_routes(op) ==
    CASE op \in {"list_keys", "get_key"} -> "LIST_KEYS"
      [] op \in Sm9Ops \cup {"hash"} \cup (KeyOps \ (GatedOps \cup {"get_key"})) -> "ENCRYPT"
      [] op \in GatedOps \cup NamingOps -> "CREATE_KEY"
      [] op \in PolicyOps -> policy_routes
      [] op = "query_audit_events" -> "VIEW_AUDIT"
      [] op \in MfaOps -> "MANAGE_MFA"
      [] op \in {"list_pending_approvals", "approve_request", "reject_request"} -> "APPROVE_ACTION"
      [] op \in {"create_approval_request", "get_approval_request", "cancel_request"} -> AUTHENTICATED
      [] op = "metrics" -> ""

\* The layers in front of a handler, outermost first: the rate limiter, then
\* auth_middleware_with_permission, which takes the lock of the keys four times.
auth_middleware == <<"rate_limit", "lookup_key_id", "lookup_tenant", "validate", "has_permission">>

rest_create_key      == <<"resolve", "input", "pbac", "input", "service", "backup", "audit">>
rest_get_key         == <<"resolve", "pbac", "service">>
rest_list_keys       == <<"resolve", "pbac", "service">>
rest_encrypt         == <<"resolve", "pbac", "input", "service", "audit">>
rest_decrypt         == <<"resolve", "pbac", "input", "service", "audit">>
rest_rotate_key      == <<"resolve", "pbac", "require_approved", "service", "audit">>
rest_delete_key_Silent == <<"resolve", "pbac", "require_approved", "service">>    \* mutant: no audit event
rest_delete_key      == <<"resolve", "pbac", "require_approved", "service", "audit">>
rest_sign            == <<"resolve", "pbac", "input", "service", "audit">>
rest_verify          == <<"resolve", "pbac", "input", "service", "audit">>
rest_hmac            == <<"resolve", "pbac", "input", "service", "audit">>
rest_hmac_verify     == <<"resolve", "pbac", "input", "service", "audit">>
rest_hash            == <<"tenantless", "pbac", "input", "service", "audit">>
rest_envelope_encrypt == <<"input", "resolve", "pbac", "input", "service", "audit">>
rest_envelope_decrypt == <<"input", "resolve", "pbac", "input", "service", "audit">>
rest_envelope_rewrap == <<"input", "resolve", "pbac", "input", "service", "audit">>
rest_dh_derive       == <<"input", "resolve", "pbac", "own_key", "input", "service", "audit">>
rest_import_key      == <<"resolve", "pbac", "input", "service", "audit">>
rest_export_key      == <<"resolve", "pbac", "require_approved", "input", "service", "audit", "audit">>
rest_sm9_sign        == <<"tenantless", "pbac", "input", "service", "audit">>
rest_sm9_verify      == <<"tenantless", "pbac", "input", "service", "audit">>
rest_sm9_encrypt     == <<"tenantless", "pbac", "input", "service", "audit">>
rest_sm9_decrypt     == <<"tenantless", "pbac", "input", "service", "audit">>
rest_query_audit_events == <<"tenantless", "pbac", "service">>
rest_metrics         == <<"audit", "service">>

rest_mfa_setup         == <<"mfa_store", "audit">>
rest_mfa_verify        == <<"mfa_locked_out", "mfa_check", "audit">>
rest_mfa_verify_backup == <<"mfa_usage", "mfa_check", "audit">>
rest_mfa_status        == <<"service", "audit">>

rest_create_policy_Silent == <<"input", "policy_save", "policy_insert">>    \* mutant: no audit event
rest_create_policy == <<"input", "policy_save", "policy_insert", "audit">>
rest_get_policy    == <<"policy_read">>
rest_list_policies == <<"service">>
rest_delete_policy == <<"policy_known", "policy_delete", "policy_remove", "audit">>

rest_create_approval_request_Any ==    \* mutant: whose key it is is not asked
    <<"input", "resolve", "approval_create", "audit">>
rest_create_approval_request == <<"input", "resolve", "own_key", "approval_create", "audit">>
rest_list_pending_approvals  == <<"listing_tenant", "service", "audit">>
rest_get_approval_request    == <<"approval_read", "audit">>
rest_approve_request         == <<"approval_tenant", "approval_approve", "audit">>
rest_reject_request          == <<"approval_tenant", "approval_reject", "audit">>
rest_cancel_request          == <<"approval_cancel", "audit">>

Rest ==
    [create_key |-> rest_create_key, get_key |-> rest_get_key, list_keys |-> rest_list_keys,
     encrypt |-> rest_encrypt, decrypt |-> rest_decrypt, rotate_key |-> rest_rotate_key,
     delete_key |-> rest_delete_key, sign |-> rest_sign, verify |-> rest_verify,
     hmac |-> rest_hmac, hmac_verify |-> rest_hmac_verify, hash |-> rest_hash,
     envelope_encrypt |-> rest_envelope_encrypt, envelope_decrypt |-> rest_envelope_decrypt,
     envelope_rewrap |-> rest_envelope_rewrap, dh_derive |-> rest_dh_derive,
     import_key |-> rest_import_key, export_key |-> rest_export_key,
     sm9_sign |-> rest_sm9_sign, sm9_verify |-> rest_sm9_verify,
     sm9_encrypt |-> rest_sm9_encrypt, sm9_decrypt |-> rest_sm9_decrypt,
     query_audit_events |-> rest_query_audit_events, metrics |-> rest_metrics,
     mfa_setup |-> rest_mfa_setup, mfa_verify |-> rest_mfa_verify,
     mfa_verify_backup |-> rest_mfa_verify_backup, mfa_status |-> rest_mfa_status,
     create_policy |-> rest_create_policy, get_policy |-> rest_get_policy,
     list_policies |-> rest_list_policies, delete_policy |-> rest_delete_policy,
     create_approval_request |-> rest_create_approval_request,
     list_pending_approvals |-> rest_list_pending_approvals,
     get_approval_request |-> rest_get_approval_request,
     approve_request |-> rest_approve_request, reject_request |-> rest_reject_request,
     cancel_request |-> rest_cancel_request]

-----------------------------------------------------------------------------
(* gRPC: the interceptor, then the handlers, each with its permission.     *)

interceptor == <<"validate_with_identity", "lookup_tenant", "check_permission">>

Handler(permission, steps) == [permission |-> permission, steps |-> steps]

grpc_create_key ==
    Handler("CREATE_KEY", <<"resolve_strict", "pbac", "input", "service", "audit", "backup">>)
grpc_get_key == Handler("GET_KEY", <<"input", "resolve_strict", "pbac", "service", "audit">>)
grpc_list_keys == Handler("LIST_KEYS", <<"resolve_strict", "pbac", "service", "audit">>)
grpc_encrypt == Handler("ENCRYPT", <<"input", "resolve_strict", "pbac", "input", "service", "audit">>)
grpc_decrypt == Handler("DECRYPT", <<"input", "resolve_strict", "pbac", "input", "service", "audit">>)
grpc_rotate_key ==
    Handler("ROTATE_KEY", <<"input", "resolve_strict", "pbac", "require_approved", "service", "audit">>)
grpc_delete_key ==
    Handler("DELETE_KEY", <<"input", "resolve_strict", "pbac", "require_approved", "service", "audit">>)
grpc_sign == Handler("SIGN", <<"input", "resolve_strict", "pbac", "input", "service", "audit">>)
grpc_verify == Handler("VERIFY", <<"input", "resolve_strict", "pbac", "input", "service", "audit">>)
grpc_hmac == Handler("ENCRYPT", <<"input", "resolve_strict", "pbac", "service", "audit">>)
grpc_hmac_verify == Handler("ENCRYPT", <<"input", "resolve_strict", "pbac", "service", "audit">>)
grpc_sm9_sign == Handler("SIGN", <<"tenantless", "pbac", "input", "service", "audit">>)
grpc_sm9_verify == Handler("VERIFY", <<"tenantless", "pbac", "input", "service", "audit">>)
grpc_sm9_encrypt == Handler("ENCRYPT", <<"tenantless", "pbac", "input", "service", "audit">>)
grpc_sm9_decrypt == Handler("DECRYPT", <<"tenantless", "pbac", "input", "service", "audit">>)
grpc_envelope_encrypt == Handler("ENCRYPT", <<"input", "resolve_strict", "pbac", "service", "audit">>)
grpc_envelope_decrypt == Handler("DECRYPT", <<"input", "resolve_strict", "pbac", "service", "audit">>)
grpc_envelope_rewrap == Handler("ENCRYPT", <<"input", "resolve_strict", "pbac", "service", "audit">>)
grpc_import_key == Handler("IMPORT_KEY", <<"resolve_strict", "pbac", "input", "service", "audit">>)
grpc_export_key_Unapproved ==    \* mutant: the gate of the REST handler is missing
    Handler("EXPORT_KEY", <<"input", "resolve_strict", "pbac", "input", "service", "audit">>)
grpc_export_key ==
    Handler("EXPORT_KEY",
            <<"input", "resolve_strict", "pbac", "require_approved", "input", "service", "audit">>)
grpc_hash == Handler("HASH", <<"tenantless", "pbac", "input", "service">>)
grpc_dh_derive ==
    Handler("ENCRYPT", <<"input", "resolve_strict", "pbac", "own_key", "service", "audit">>)
grpc_query_audit_events == Handler("VIEW_AUDIT", <<"tenantless", "pbac", "input", "service">>)

Grpc ==
    [create_key |-> grpc_create_key, get_key |-> grpc_get_key, list_keys |-> grpc_list_keys,
     encrypt |-> grpc_encrypt, decrypt |-> grpc_decrypt, rotate_key |-> grpc_rotate_key,
     delete_key |-> grpc_delete_key, sign |-> grpc_sign, verify |-> grpc_verify,
     hmac |-> grpc_hmac, hmac_verify |-> grpc_hmac_verify, sm9_sign |-> grpc_sm9_sign,
     sm9_verify |-> grpc_sm9_verify, sm9_encrypt |-> grpc_sm9_encrypt,
     sm9_decrypt |-> grpc_sm9_decrypt, envelope_encrypt |-> grpc_envelope_encrypt,
     envelope_decrypt |-> grpc_envelope_decrypt, envelope_rewrap |-> grpc_envelope_rewrap,
     import_key |-> grpc_import_key, export_key |-> grpc_export_key, hash |-> grpc_hash,
     dh_derive |-> grpc_dh_derive, query_audit_events |-> grpc_query_audit_events]

Program(channel, op) ==
    IF channel = "rest" THEN auth_middleware \o Rest[op] ELSE interceptor \o Grpc[op].steps

-----------------------------------------------------------------------------
(* Requests.                                                               *)

\* A request is one that a route serves, over REST or gRPC.
ASSUME RequestsAssumption ==
    \A c \in Clients : \A q \in RequestsOf[c] :
      \/ q.channel = "rest" /\ q.op \in RestOps
      \/ q.channel = "grpc" /\ q.op \in SharedOps

\* Approval requests have their own ids, and the tenant of a requestor that is
\* bound to one.
ASSUME ApprovalsAssumption ==
    /\ InitialApprovals \subseteq [id : ApprovalIds, op : GatedOps, key : Keys, tenant : Tenants,
                                   requestor : STRING, status : STRING]
    /\ \A a, b \in InitialApprovals : a.id = b.id => a = b
    /\ \A a \in InitialApprovals, i \in DOMAIN Declared :
         a.requestor = Declared[i].id /\ Declared[i].tenant # Unbound => a.tenant = Declared[i].tenant

NoPolicy == "no policy"

\* q is what the caller sends: the key is an id or a name, gated the operation
\* an approval is asked for, approval the id of a request for one.
Request(q) ==
    [at |-> "run", channel |-> q.channel, op |-> q.op, secret |-> q.secret, self |-> q.self,
     key |-> q.key, policy |-> q.policy, gated |-> q.gated, approval |-> q.approval,
     todo |-> Program(q.channel, q.op),
     id |-> "unknown", bound |-> Unbound, role |-> "ReadOnly", tenant |-> "",
     effect |-> FALSE, owner |-> "", audited |-> FALSE]

Ended(at) ==
    [at |-> at, channel |-> "rest", op |-> "metrics", secret |-> "", self |-> "", key |-> "",
     policy |-> NoPolicy, gated |-> "", approval |-> "", todo |-> <<>>, id |-> "unknown", bound |-> Unbound,
     role |-> "ReadOnly", tenant |-> "", effect |-> FALSE, owner |-> "", audited |-> FALSE]

\* What is remembered of a request that got no success: its effect, and which
\* policy it was about.
Broken(r, at) == IF r.effect \/ r.op \in PolicyOps THEN [r EXCEPT !.at = at] ELSE Ended(at)

\* rest.rs::resolve_tenant; the gRPC one differs for an empty tenant only,
\* which it refuses.
resolve_tenant_SelfReported(bound, self) ==    \* mutant: the caller's word counts
    IF self # "" THEN self ELSE IF bound = Unbound THEN "" ELSE bound
resolve_tenant(bound, self) == IF bound = Unbound THEN self ELSE bound

Approved(op, key) ==
    \E a \in approvals : a.op = op /\ a.key = key /\ a.status = "approved"
Approvals(r) == {a \in approvals : a.id = r.approval}

\* A tenant-bound caller sees the approvals of its tenant only.
ApprovalVisible(r) == r.bound = Unbound \/ \A a \in Approvals(r) : a.tenant = r.bound

Owned(key, tenant) == key \in DOMAIN store /\ store[key] = tenant

\* The condition under which a step lets the request go on.
Passes(s, r) ==
    CASE s = "has_permission" -> has_permission(r.secret, create_routes(r.op))
      [] s = "validate_with_identity" -> validate(r.secret) # {}
      [] s = "check_permission" -> satisfies(r.role, Grpc[r.op].permission)
      [] s = "resolve_strict" -> r.bound # Unbound \/ r.self # ""
      [] s = "pbac" -> evaluate_pbac(Context(r))
      [] s = "own_key" -> Owned(r.key, r.tenant)
      [] s = "require_approved" -> Approved(r.op, r.key)
      [] s = "service" -> r.op \in KeyOps => Owned(r.key, r.tenant)
      [] s = "listing_tenant" -> r.bound \in {Unbound, r.self}
      [] s = "approval_read" -> Approvals(r) # {} /\ ApprovalVisible(r)
      [] s = "approval_tenant" -> ApprovalVisible(r)
      [] s = "approval_approve" ->
           \E a \in Approvals(r) : a.status = "pending" /\ a.requestor # r.id
      [] s = "approval_reject" -> \E a \in Approvals(r) : a.status = "pending"
      [] s = "approval_cancel" ->
           \E a \in Approvals(r) : a.status = "pending" /\ a.requestor = r.id
      [] s \in {"policy_known", "policy_read"} -> r.policy \in policies
      [] OTHER -> TRUE

\* Steps that may refuse for a reason this model does not look into: the rate
\* limit, malformed input, an error of a service or of a store.
MayRefuse == {"rate_limit", "input", "service", "mfa_store", "mfa_locked_out", "mfa_usage",
              "policy_save", "policy_delete"}

\* Steps nothing of which others can see or change: the id and the tenant of
\* a key stay what they are.
Local == {"rate_limit", "lookup_key_id", "lookup_tenant", "resolve", "resolve_strict",
          "tenantless", "input", "backup", "listing_tenant"}

\* The request after the local steps in front of its next shared one.
TheOnly(set, default) == IF set = {} THEN default ELSE CHOOSE x \in set : TRUE
Localised(r, steps) ==
    LET id == IF "lookup_key_id" \in steps THEN TheOnly(lookup_key_id(r.secret), "unknown") ELSE r.id
        bound == IF "lookup_tenant" \in steps THEN TheOnly(lookup_tenant(r.secret), Unbound)
                 ELSE r.bound
        tenant == CASE steps \cap {"resolve", "resolve_strict"} # {} -> resolve_tenant(bound, r.self)
                    [] "tenantless" \in steps -> IF bound = Unbound THEN "" ELSE bound
                    [] OTHER -> r.tenant
    IN  [r EXCEPT !.id = id, !.bound = bound, !.tenant = tenant]

\* The steps at which a request takes effect: what it asked for is read for
\* it, used or changed.
Effects ==
    {"service", "mfa_store", "mfa_check", "policy_read", "policy_save", "policy_insert",
     "policy_delete", "policy_remove", "approval_create", "approval_read", "approval_approve",
     "approval_reject", "approval_cancel"}

\* The tenant of what it takes effect on.
OwnerOf(s, r) ==
    CASE s = "service" /\ r.op \in KeyOps -> store[r.key]
      [] s \in {"approval_read", "approval_approve", "approval_reject", "approval_cancel"} ->
           (CHOOSE a \in Approvals(r) : TRUE).tenant
      [] OTHER -> r.tenant

\* What a shared step leaves in it.
After(s, r) ==
    CASE s = "validate" ->
           [r EXCEPT !.role = IF validate(r.secret) = {} THEN "ReadOnly"
                              ELSE TheOnly(validate(r.secret), {}).role]
      [] s = "validate_with_identity" ->
           LET k == TheOnly(validate(r.secret), {}) IN [r EXCEPT !.id = k.id, !.role = k.role]
      [] s \in Effects -> [r EXCEPT !.effect = TRUE, !.owner = OwnerOf(s, r)]
      [] s = "audit" -> [r EXCEPT !.audited = TRUE]
      [] OTHER -> r

\* The local steps a request is at, the position of the shared one they lead
\* to (past the end if there is none), and the request as that one finds it.
Running(c) == req[c].at = "run"
Next1(r) == CHOOSE i \in 1..(Len(r.todo) + 1) :
              /\ i = Len(r.todo) + 1 \/ r.todo[i] \notin Local
              /\ \A j \in 1..(i - 1) : r.todo[j] \in Local
Leading(r) == {r.todo[j] : j \in 1..(Next1(r) - 1)}
Step(r) == IF Next1(r) > Len(r.todo) THEN "answer" ELSE r.todo[Next1(r)]
Ready(r) == Localised(r, Leading(r))

Advance(r) ==
    LET rest == SubSeq(r.todo, Next1(r) + 1, Len(r.todo))
        next == [After(Step(r), Ready(r)) EXCEPT !.todo = rest]
    IN  IF rest = <<>> THEN [next EXCEPT !.at = "answered"] ELSE next

KmsInit ==
    /\ CredsInit
    /\ policies \in InitialPolicies
    /\ stored = policies
    /\ store = Owners
    /\ approvals = InitialApprovals
    /\ req = [c \in Clients |-> Ended("idle")]
    /\ facts = [c \in Clients |-> {}]
    /\ restarts = 0

\* A request arrives.
Arrive(c) ==
    /\ req[c].at = "idle"
    /\ \E q \in RequestsOf[c] :
         /\ q.op = "create_policy" => q.policy \notin policies \cup stored
         /\ req' = [req EXCEPT ![c] = Request(q)]
    /\ UNCHANGED <<credVars, policyVars, store, approvals, restarts>>

\* A step refuses: the caller gets the error and nothing else happens.
Refuse(c) ==
    /\ Running(c)
    /\ \E s \in Leading(req[c]) \cup {Step(req[c])} :
         ~Passes(s, Ready(req[c])) \/ s \in MayRefuse
    /\ req' = [req EXCEPT ![c] = Broken(req[c], "refused")]
    /\ UNCHANGED <<credVars, policyVars, store, approvals, restarts>>

\* A step passes and the request goes on.
Proceed(c, s) ==
    /\ Running(c)
    /\ Step(req[c]) = s
    /\ \A t \in Leading(req[c]) \cup {s} : Passes(t, Ready(req[c]))
    /\ req' = [req EXCEPT ![c] = Advance(req[c])]

Checks == {"validate", "has_permission", "validate_with_identity", "check_permission", "pbac",
           "own_key", "require_approved", "audit", "mfa_locked_out", "mfa_usage", "mfa_store",
           "policy_known", "policy_read", "approval_read", "approval_tenant", "answer"}
Check(c) ==
    /\ \E s \in Checks : Proceed(c, s)
    /\ UNCHANGED <<credVars, policyVars, store, approvals, restarts>>

\* The key store changes under create, import and delete.
Serve(c) ==
    /\ Proceed(c, "service")
    /\ CASE req[c].op \in NamingOps ->
              \E k \in Keys \ DOMAIN store :
                store' = [x \in DOMAIN store \cup {k} |-> IF x = k THEN Ready(req[c]).tenant ELSE store[x]]
         [] req[c].op = "delete_key" ->
              store' = [x \in DOMAIN store \ {req[c].key} |-> store[x]]
         [] OTHER -> UNCHANGED store
    /\ UNCHANGED <<credVars, policyVars, approvals, restarts>>

\* mfa_verify and mfa_verify_backup: the answer that reaches the limit locks
\* the API key of the caller.
MfaCheck(c) ==
    /\ Proceed(c, "mfa_check")
    /\ lock_key_by_id(Ready(req[c]).id) \/ UNCHANGED creds
    /\ UNCHANGED <<rotating, admin, revoked, policyVars, store, approvals, restarts>>

ChangePolicy(c) ==
    /\ \/ Proceed(c, "policy_save") /\ save(req[c].policy)
       \/ Proceed(c, "policy_insert") /\ insert(req[c].policy)
       \/ Proceed(c, "policy_delete") /\ delete(req[c].policy)
       \/ Proceed(c, "policy_remove") /\ remove(req[c].policy)
    /\ UNCHANGED <<credVars, store, approvals, restarts>>

SetStatus(a, status) == approvals' = (approvals \ {a}) \cup {[a EXCEPT !.status = status]}
Rejected == "rejected"

\* The id of a new request is a random UUID: no request has it, no caller named it.
FreshIds == ApprovalIds \ ({a.id : a \in approvals} \cup {req[c].approval : c \in Clients})

ChangeApproval(c) ==
    LET r == Ready(req[c])
    IN
    /\ \/ /\ Proceed(c, "approval_create")
          /\ \E i \in FreshIds :
               approvals' = approvals \cup {[id |-> i, op |-> r.gated, key |-> r.key, tenant |-> r.tenant,
                                              requestor |-> r.id, status |-> "pending"]}
       \/ /\ Proceed(c, "approval_approve")
          /\ \E a \in Approvals(r) :
               /\ a.status = "pending" /\ a.requestor # r.id
               /\ SetStatus(a, "approved") \/ SetStatus(a, "pending")
       \/ /\ Proceed(c, "approval_reject")
          /\ \E a \in Approvals(r) : a.status = "pending" /\ SetStatus(a, Rejected)
       \/ /\ Proceed(c, "approval_cancel")
          /\ \E a \in Approvals(r) :
               a.status = "pending" /\ a.requestor = r.id /\ SetStatus(a, "cancelled")
    /\ UNCHANGED <<credVars, policyVars, store, restarts>>

\* The client hangs up: the handler is dropped between two steps.
HangUp(c) ==
    /\ Running(c)
    /\ req' = [req EXCEPT ![c] = Broken(req[c], "dropped")]
    /\ UNCHANGED <<credVars, policyVars, store, approvals, restarts>>

\* The clock: a lock of fifteen minutes lapses, an approval expires.
Lapse ==
    /\ \/ \E i \in DOMAIN creds : LockLapses(i) /\ UNCHANGED approvals
       \/ \E a \in approvals : a.status = "approved" /\ SetStatus(a, "expired") /\ UNCHANGED creds
    /\ UNCHANGED <<rotating, admin, revoked, policyVars, store, req, restarts>>

\* Keys and policies are in the database; credentials come from the
\* configuration, approvals are kept in memory.
Restart ==
    /\ restarts < MaxRestarts
    /\ restarts' = restarts + 1
    /\ req' = [c \in Clients |-> IF Running(c) THEN Broken(req[c], "dropped") ELSE req[c]]
    /\ creds' = [i \in DOMAIN Declared |->
                   NewKey(Declared[i].id, Declared[i].secret, Declared[i].role, Declared[i].tenant)]
    /\ approvals' = {}
    /\ load_from_repository
    /\ UNCHANGED <<rotating, admin, revoked, store>>

-----------------------------------------------------------------------------
(* What authorises a request, said of the state and not of the handlers.   *)

\* The permission an operation takes: the gRPC handlers are the finer ones.
\* What only REST serves is named here again, apart from the routes.
Needs(op) ==
    CASE op \in SharedOps -> Grpc[op].permission
      [] op \in PolicyOps -> "MANAGE_POLICY"
      [] op \in MfaOps -> "MANAGE_MFA"
      [] op \in {"list_pending_approvals", "approve_request", "reject_request"} -> "APPROVE_ACTION"
      [] op \in {"create_approval_request", "get_approval_request", "cancel_request"} -> "LIST_KEYS"
      [] op = "metrics" -> ""

Credential(r) == {creds[i] : i \in WithSecret(r.secret)}
TenantOf(r) ==
    LET k == CHOOSE k \in Credential(r) : TRUE
    IN  IF k.tenant # Unbound THEN k.tenant ELSE IF r.op \in TenantlessOps THEN "" ELSE r.self

PolicyAllows(r) ==
    LET applies(p) == \E k \in Credential(r) :
                        /\ p.enabled
                        /\ k.id \in p.subjects
                        /\ ResourceOf(r) \in p.resources
                        /\ r.op \in p.actions
                        /\ p.tenant \in {AnyTenant} \cup ({TenantOf(r)} \ {""})
    IN  \/ \A p \in policies : ~p.enabled
        \/ /\ \E p \in policies : applies(p) /\ p.effect = "Allow"
           /\ \A p \in policies : applies(p) => p.effect # "Deny"

FactsNow(r) ==
    {f \in {"credential", "policy", "approval", "owner"} :
       CASE f = "credential" -> \E k \in Credential(r) : Usable(k) /\ satisfies(k.role, Needs(r.op))
         [] f = "policy"     -> PolicyAllows(r)
         [] f = "approval"   -> Approved(r.op, r.key)
         [] f = "owner"      -> Owned(r.key, TenantOf(r))}

Required(op) ==
    {"credential"} \cup (IF op \in SharedOps THEN {"policy"} ELSE {})
                   \cup (IF op \in GatedOps THEN {"approval"} ELSE {})
                   \cup (IF op \in KeyOps \cup {"create_approval_request"} THEN {"owner"} ELSE {})

\* While a request has not taken effect, the facts of every state count.
Observe ==
    facts' = [c \in Clients |->
                IF req'[c].effect THEN facts[c]
                ELSE IF req'[c].at = "run" THEN facts[c] \cup FactsNow(req[c])' ELSE {}]

KmsNext ==
    /\ \/ \E c \in Clients : \/ Arrive(c) \/ Refuse(c) \/ Check(c) \/ Serve(c) \/ MfaCheck(c)
                             \/ ChangePolicy(c) \/ ChangeApproval(c) \/ HangUp(c)
       \/ Lapse
       \/ Restart
    /\ Observe

KmsSpec == KmsInit /\ [][KmsNext]_kmsVars

-----------------------------------------------------------------------------
(* Properties.                                                             *)

\* No request takes effect on authority that is older than the request: while
\* it ran, before its first effect, there was an instant at which the credential
\* was usable and its role had the permission, for an operation on keys one at
\* which the policies allowed it, one at which the approval it takes was in
\* force and one at which the tenant owned the key; a policy, a user's second
\* factor or an approval is read or changed with the permission for that.
Authorised ==
    \A c \in Clients : req[c].effect => Required(req[c].op) \subseteq facts[c]

\* A caller whose key is bound to a tenant never acts on another tenant's key,
\* creates a key there, or asks for, reads or decides on an approval there by its
\* id, whatever tenant it claims.
TenantConfined ==
    \A c \in Clients : \A k \in Credential(req[c]) :
      req[c].effect /\ k.tenant # Unbound
          /\ req[c].op \in KeyOps \cup NamingOps \cup
                           {"list_keys", "create_approval_request", "get_approval_request",
                            "approve_request", "reject_request", "cancel_request"}
        => req[c].owner = k.tenant

\* REST and gRPC ask for the same authority: a request that names its tenant
\* passes the gates of one channel exactly when it passes those of the other.
Gates == {"has_permission", "check_permission", "pbac", "own_key", "require_approved", "service"}
Resolved(r) ==
    LET k == CHOOSE k \in validate(r.secret) : TRUE
    IN  [r EXCEPT !.id = k.id, !.bound = k.tenant, !.role = k.role, !.tenant = TenantOf(r)]
GatesPass(channel, r) ==
    \A i \in DOMAIN Program(channel, r.op) :
      Program(channel, r.op)[i] \in Gates => Passes(Program(channel, r.op)[i], Resolved(r))
ChannelsAgree ==
    \A c \in Clients :
      req[c].at = "run" /\ req[c].op \in SharedOps /\ validate(req[c].secret) # {}
          /\ (req[c].op \in TenantlessOps \/ TenantOf(req[c]) # "")
        => GatesPass("rest", req[c]) = GatesPass("grpc", req[c])

\* An operation that changed or used a key, a policy, an approval or a second
\* factor and was answered has left its audit event.  (A client that hangs up in
\* between leaves the effect without the event; the reads named here are silent.)
Silent(r) == \/ r.op \in {"query_audit_events", "get_policy", "list_policies"}
             \/ r.channel = "rest" /\ r.op \in {"get_key", "list_keys"}
             \/ r.channel = "grpc" /\ r.op = "hash"
AnsweredIsAudited ==
    \A c \in Clients : req[c].at = "answered" /\ req[c].effect /\ ~Silent(req[c]) => req[c].audited

\* A policy whose creation was answered is in force and survives a restart
\* until somebody deletes it; one whose deletion was answered is neither in
\* force nor stored, whatever restarts and dropped requests came between.
Deleting(p) == \E c \in Clients : req[c].op = "delete_policy" /\ req[c].policy = p
Creating(p) == \E c \in Clients : req[c].op = "create_policy" /\ req[c].policy = p
PolicyDurable ==
    \A c \in Clients : req[c].at = "answered" =>
      /\ req[c].op = "create_policy" /\ ~Deleting(req[c].policy)
           => req[c].policy \in policies /\ req[c].policy \in stored
      /\ req[c].op = "delete_policy" /\ ~Creating(req[c].policy)
           => req[c].policy \notin policies \cup stored

=============================================================================
