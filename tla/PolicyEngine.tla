---------------------------- MODULE PolicyEngine ----------------------------
(***************************************************************************)
(* The PBAC engine, crates/kms-policy/src/engine.rs, and its durable half, *)
(* store.rs.  A change is written to the store first and to the map the    *)
(* engine evaluates from second, two steps between which the caller may go *)
(* away or the process may stop; a restart loads the map from the store.   *)
(*                                                                         *)
(* The globs of a policy are the sets of subjects and resources they match *)
(* and its condition is the set of actions it is true of: PolicyConditions *)
(* models how these are computed.                                          *)
(***************************************************************************)
EXTENDS Naturals, FiniteSets

\* Policies: [effect, enabled, subjects, resources, tenant, actions]
CONSTANT PolicyPool

AnyTenant == "any tenant"    \* Policy.tenant is None

VARIABLES
    policies,    \* PBACEngine.policies
    stored       \* the table policies

policyVars == <<policies, stored>>

-----------------------------------------------------------------------------

\* An empty tenant is no tenant, and matches no tenant-scoped policy.
tenant_matches(p, tenant) ==
    p.tenant = AnyTenant \/ (tenant # "" /\ tenant = p.tenant)

Matching(ps, ctx) ==
    {p \in ps : /\ p.enabled
                /\ ctx.subject \in p.subjects
                /\ tenant_matches(p, ctx.tenant)
                /\ ctx.resource \in p.resources}

\* Denying policies come first; the first one whose condition holds decides.
evaluate_locked_AllowFirst(ps, ctx) ==    \* mutant: the sort is the other way round
    LET holding == {p \in Matching(ps, ctx) : ctx.action \in p.actions}
    IN  IF \E p \in holding : p.effect = "Allow" THEN "Allow" ELSE "Deny"
evaluate_locked(ps, ctx) ==
    LET holding == {p \in Matching(ps, ctx) : ctx.action \in p.actions}
    IN  IF \E p \in holding : p.effect = "Deny" THEN "Deny"
        ELSE IF \E p \in holding : p.effect = "Allow" THEN "Allow"
        ELSE "Deny"

\* None when no policy is enabled.
evaluate_if_configured(ps, ctx) ==
    IF \A p \in ps : ~p.enabled THEN "None" ELSE evaluate_locked(ps, ctx)

\* evaluate_pbac, which both channels call.
evaluate_pbac(ctx) == evaluate_if_configured(policies, ctx) # "Deny"

-----------------------------------------------------------------------------
(* add_policy and remove_policy, the store's half and the engine's.        *)

save(p)   == stored' = stored \cup {p} /\ UNCHANGED policies
insert(p) == policies' = policies \cup {p} /\ UNCHANGED stored
delete(p) == stored' = stored \ {p} /\ UNCHANGED policies
remove_Kept(p) == UNCHANGED policyVars    \* mutant: only the row is deleted
remove(p) == policies' = policies \ {p} /\ UNCHANGED stored

\* load_from_repository and replace_all, at start-up.
load_from_repository == policies' = stored /\ UNCHANGED stored

=============================================================================
