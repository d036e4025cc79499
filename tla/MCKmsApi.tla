------------------------------ MODULE MCKmsApi ------------------------------
(* An instance of KmsApi for TLC: one request of any kind against one of    *)
(* an administrator.                                                        *)
EXTENDS KmsApi, TLC

MCDeclared ==
    <<[id |-> "admin", secret |-> "s1", role |-> "KeyAdmin", tenant |-> "tA"],
      [id |-> "free", secret |-> "s2", role |-> "KeyAdmin", tenant |-> Unbound],
      [id |-> "officer", secret |-> "s3", role |-> "SecurityOfficer", tenant |-> Unbound],
      [id |-> "officerA", secret |-> "s4", role |-> "TenantAdmin", tenant |-> "tA"],
      [id |-> "audit", secret |-> "s5", role |-> "AuditAdmin", tenant |-> Unbound]>>

Q(channel, op, secret, self, key, policy) ==
    [channel |-> channel, op |-> op, secret |-> secret, self |-> self, key |-> key,
     policy |-> policy, gated |-> "", approval |-> ""]
Channels(op) == IF op \in SharedOps THEN {"rest", "grpc"} ELSE {"rest"}
Sent(ops, secrets, selves, keys) ==
    {Q(x[1], x[2], s, t, k, NoPolicy) :
       x \in {y \in {"rest", "grpc"} \X ops : y[1] \in Channels(y[2])},
       s \in secrets, t \in selves, k \in keys}
OnPolicy(op, p, secret) == Q("rest", op, secret, "", "", p)
Asking(secret, key, op) ==
    [Q("rest", "create_approval_request", secret, "tA", key, NoPolicy) EXCEPT !.gated = op]
OnApproval(op, secret, approval) ==
    [Q("rest", op, secret, "tA", "", NoPolicy) EXCEPT !.approval = approval]

MCOwners == [k \in {"k1", "k2"} |-> IF k = "k1" THEN "tA" ELSE "tB"]

Everyone == {"admin", "free", "officer", "officerA", "audit"}
Everything == Keys \cup {"keys", "hash", "audit"}
AllowAll == [name |-> "p1", effect |-> "Allow", enabled |-> TRUE, subjects |-> Everyone,
             resources |-> Everything, tenant |-> AnyTenant, actions |-> SharedOps]
DenyA == [name |-> "p2", effect |-> "Deny", enabled |-> TRUE, subjects |-> {"admin", "free"},
          resources |-> {"k1"}, tenant |-> "tA", actions |-> {"export_key", "decrypt", "sm9_sign"}]
MCPolicyPool == {AllowAll, DenyA}
MCInitialPolicies == {{}, {AllowAll, DenyA}}

MCApprovals ==
    {[id |-> "a1", op |-> "export_key", key |-> "k1", tenant |-> "tA", requestor |-> "admin", status |-> "approved"],
     [id |-> "a2", op |-> "delete_key", key |-> "k1", tenant |-> "tA", requestor |-> "admin", status |-> "pending"],
     [id |-> "a3", op |-> "delete_key", key |-> "k2", tenant |-> "tB", requestor |-> "free", status |-> "approved"],
     [id |-> "a4", op |-> "rotate_key", key |-> "k2", tenant |-> "tB", requestor |-> "free", status |-> "pending"]}

\* The first client sends a request of any kind, with credentials that fit and
\* with credentials that do not; the second one administers.
MCRequestsOf ==
    [c1 |->
       Sent(KeyOps, {"s1"}, {"tB"}, {"k1"}) \cup Sent({"get_key", "import_key", "sign", "dh_derive", "delete_key"}, {"s2"}, {"tA"}, {"k1"})
         \cup Sent({"encrypt", "export_key"}, {"s1"}, {"tB"}, {"k2"})
         \cup Sent({"encrypt", "create_key"}, {"s2"}, {""}, {"k1"})
         \cup Sent({"get_key", "decrypt"}, {"s5"}, {"tA"}, {"k1"})
         \cup Sent(GatedOps, {"s2"}, {"tB"}, {"k2"})
         \cup Sent(NamingOps \cup {"list_keys"}, {"s1", "s4"}, {"tB"}, {"k3"})
         \cup Sent(TenantlessOps, {"s1", "s5"}, {""}, {"k3"})
         \cup Sent(MfaOps \cup {"metrics"}, {"s1", "s3"}, {""}, {""})
         \cup {OnPolicy("create_policy", DenyA, s) : s \in {"s1", "s3"}}
         \cup {OnPolicy("delete_policy", DenyA, s) : s \in {"s1", "s3"}}
         \cup {OnPolicy("get_policy", AllowAll, "s3"), OnPolicy("list_policies", NoPolicy, "s3")}
         \cup {Asking(s, x[1], x[2]) : s \in {"s1", "s4"}, x \in {<<"k1", "delete_key">>, <<"k2", "rotate_key">>}}
         \cup {OnApproval(op, s, a) : op \in ApprovalOps \ {"create_approval_request"}, s \in {"s1", "s4"},
                                      a \in {"a2", "a4"}},
     c2 |->
       {OnPolicy("create_policy", DenyA, "s3"), OnPolicy("delete_policy", AllowAll, "s3"),
        OnApproval("approve_request", "s3", "a2"),
        OnApproval("approve_request", "s3", "a5"),
        OnApproval("cancel_request", "s1", "a2"),
        Q("rest", "delete_key", "s1", "tA", "k1", NoPolicy)}]

=============================================================================
