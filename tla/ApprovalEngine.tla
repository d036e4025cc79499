--------------------------- MODULE ApprovalEngine ---------------------------
(***************************************************************************)
(* The approval workflow (crates/kms-approval/src/lib.rs) behind the REST  *)
(* handlers that create, approve, reject and cancel requests and behind    *)
(* the gate require_approved of the sensitive key operations               *)
(* (crates/kms-api/src/rest.rs).                                           *)
(*                                                                         *)
(* The engine sits behind one lock and its handlers run to completion      *)
(* under it, so an action is a whole handler.  What is hard is the order   *)
(* in which callers, the clock, the clean-up and restarts reach it.        *)
(* Requests are held in memory only.  restore_request takes a copy that    *)
(* was kept elsewhere: `saved' is what the caller of the engine kept of    *)
(* its requests, when and as often as it liked, older states included.     *)
(***************************************************************************)
EXTENDS Integers, Sequences, FiniteSets

CONSTANTS
    RequestIds,  \* ids create_request may draw
    Users,       \* API keys: the caller identity is always the credential
    RoleOf,      \* credential -> approval role (role_from_permission)
    Tenants,
    TenantOf,    \* credential -> the tenant it is bound to, or Unbound
    Unbound,     \* a credential that may act in any tenant
    Resources,   \* key ids
    OwnerOf,     \* resource -> the tenant that owns the key
    Operations,  \* the operations requested in the run
    Instants,    \* clock readings, in hours
    MaxCopies    \* bound: copies kept elsewhere

Role == {"User", "Operator", "Manager", "Admin", "SecurityOfficer"}

AllOperations ==
    {"KeyDelete", "KeyExport", "KeyRotate", "PolicyChange",
     "HighValueKeyCreate", "AuditAccess", "MfaChange", "TenantAdmin"}

ASSUME ConstantsAssumption ==
    /\ RoleOf \in [Users -> Role]
    /\ TenantOf \in [Users -> Tenants \cup {Unbound}]
    /\ Unbound \notin Tenants
    /\ OwnerOf \in [Resources -> Tenants]
    /\ Operations \subseteq AllOperations
    /\ Instants \subseteq Nat
    /\ 0 \in Instants
    /\ MaxCopies \in Nat

VARIABLES
    now,       \* Utc::now(), in hours
    requests,  \* pending_requests: a function on the ids in memory
    saved,     \* copies kept elsewhere, with their ids (external)
    born,      \* every request as it was created (history)
    grants     \* the sensitive operation let through last (history)

vars == <<now, requests, saved, born, grants>>

-----------------------------------------------------------------------------
(* ApprovalLevel is ordered: None < Single < ... < Manager < Admin.        *)

None == 0
Single == 1
Double == 2
Triple == 3
Manager == 4
Admin == 5

Level == None..Admin

default_required_level(op) ==
    CASE op = "KeyDelete"          -> Double
      [] op = "KeyExport"          -> Triple
      [] op = "HighValueKeyCreate" -> Manager
      [] op = "KeyRotate"          -> Double
      [] op = "PolicyChange"       -> Double
      [] op = "AuditAccess"        -> Single
      [] op = "MfaChange"          -> Single
      [] op = "TenantAdmin"        -> Admin

determine_approval_level(role) ==
    CASE role = "User"            -> Single
      [] role = "Operator"        -> Double
      [] role = "Manager"         -> Triple
      [] role = "Admin"           -> Admin
      [] role = "SecurityOfficer" -> Manager

LevelOf(u) == determine_approval_level(RoleOf[u])

\* Hours a request stays open.
Timeout(level) ==
    CASE level = None    -> 0
      [] level = Single  -> 12
      [] level = Double  -> 24
      [] level = Triple  -> 48
      [] level = Manager -> 8
      [] level = Admin   -> 4

\* Operations on an existing key must name one the tenant owns.
KeyOperations == {"KeyDelete", "KeyExport", "KeyRotate"}

Status == {"Pending", "Approved", "Rejected", "Cancelled", "Expired"}

isTerminal(status) == status \in {"Approved", "Rejected", "Cancelled", "Expired"}

Vote == [by : Users, level : Level, at : Nat]

Request == [op : Operations, resource : Resources, tenant : Tenants,
            requestor : Users, required : Level, expires : Nat,
            status : Status, approvals : Seq(Vote), rejections : Seq(Vote)]

Put(f, k, e) == [x \in DOMAIN f \cup {k} |-> IF x = k THEN e ELSE f[x]]

VotedIn(votes, u) == \E i \in DOMAIN votes : votes[i].by = u

check_approval_complete(q) ==
    CASE q.required = None    -> TRUE
      [] q.required = Single  -> Len(q.approvals) >= 1
      [] q.required = Double  -> Len(q.approvals) >= 2
      [] q.required = Triple  -> Len(q.approvals) >= 3
      [] q.required = Manager ->
            \E i \in DOMAIN q.approvals : q.approvals[i].level = Manager
      [] q.required = Admin   ->
            \E i \in DOMAIN q.approvals : q.approvals[i].level = Admin

-----------------------------------------------------------------------------

Init ==
    /\ now = 0
    /\ requests = [r \in {} |-> 0]
    /\ saved = {}
    /\ born = [r \in {} |-> 0]
    /\ grants = {}

\* resolve_tenant: the tenant a credential is bound to overrules the one the
\* request claims.
ActsIn(u, t) == TenantOf[u] \in {t, Unbound}

NewRequest(u, t, op, res) ==
    LET required == default_required_level(op) IN
    [op |-> op, resource |-> res, tenant |-> t, requestor |-> u,
     required |-> required, expires |-> now + Timeout(required),
     status |-> "Pending", approvals |-> <<>>, rejections |-> <<>>]

create_request(r, u, t, op, res) ==
    /\ r \notin DOMAIN born
    /\ ActsIn(u, t)
    /\ op \in KeyOperations => OwnerOf[res] = t
    /\ requests' = Put(requests, r, NewRequest(u, t, op, res))
    /\ born' = Put(born, r, NewRequest(u, t, op, res))
    /\ UNCHANGED <<now, saved, grants>>

\* ensure_approval_tenant, the look-up, and the check against oneself.  The
\* first takes the lock on its own; the tenant of a request never changes, so
\* the two are one step here.
MayVote(r, u) ==
    /\ r \in DOMAIN requests
    /\ ActsIn(u, requests[r].tenant)
    /\ requests[r].requestor # u

AlreadyVoted_Never(r, u) == FALSE    \* mutant: votes are not compared
AlreadyVoted(r, u) ==
    VotedIn(requests[r].approvals, u) \/ VotedIn(requests[r].rejections, u)

Overdue(r) == now > requests[r].expires

\* An overdue request is marked by the vote that finds it so.
Expire(r) == requests' = [requests EXCEPT ![r].status = "Expired"]

VoteOf(u) == [by |-> u, level |-> LevelOf(u), at |-> now]

WithApproval_Late(q, u) ==    \* mutant: completion is decided before the vote
    [q EXCEPT !.approvals = Append(@, VoteOf(u)),
              !.status = IF check_approval_complete(q) THEN "Approved" ELSE @]
WithApproval(q, u) ==
    LET p == [q EXCEPT !.approvals = Append(@, VoteOf(u))] IN
    [p EXCEPT !.status = IF check_approval_complete(p) THEN "Approved" ELSE @]

approve(r, u) ==
    /\ MayVote(r, u)
    /\ LevelOf(u) >= requests[r].required
    /\ ~isTerminal(requests[r].status)
    /\ \/ Overdue(r) /\ Expire(r)
       \/ /\ ~Overdue(r)
          /\ ~AlreadyVoted(r, u)
          /\ requests' = [requests EXCEPT ![r] = WithApproval(@, u)]
    /\ UNCHANGED <<now, saved, born, grants>>

WithRejection(q, u) ==
    [q EXCEPT !.rejections = Append(@, VoteOf(u)), !.status = "Rejected"]

\* No level is asked of a rejector; one rejection ends the request.
reject(r, u) ==
    /\ MayVote(r, u)
    /\ ~isTerminal(requests[r].status)
    /\ \/ Overdue(r) /\ Expire(r)
       \/ /\ ~Overdue(r)
          /\ ~AlreadyVoted(r, u)
          /\ requests' = [requests EXCEPT ![r] = WithRejection(@, u)]
    /\ UNCHANGED <<now, saved, born, grants>>

\* The deadline is not looked at.
cancel(r, u) ==
    /\ r \in DOMAIN requests
    /\ requests[r].requestor = u
    /\ ~isTerminal(requests[r].status)
    /\ requests' = [requests EXCEPT ![r].status = "Cancelled"]
    /\ UNCHANGED <<now, saved, born, grants>>

cleanup_expired ==
    /\ \E r \in DOMAIN requests : requests[r].status = "Pending" /\ Overdue(r)
    /\ requests' = [r \in DOMAIN requests |->
                      IF requests[r].status = "Pending" /\ Overdue(r)
                      THEN [requests[r] EXCEPT !.status = "Expired"]
                      ELSE requests[r]]
    /\ UNCHANGED <<now, saved, born, grants>>

is_approved(r, op, res) ==
    /\ r \in DOMAIN requests
    /\ requests[r].op = op
    /\ requests[r].resource = res
    /\ requests[r].status = "Approved"
    /\ now <= requests[r].expires
    /\ check_approval_complete(requests[r])

\* require_approved lets a rotation, deletion or export through.  It does not
\* consume the approval.
require_approved(r, op, res) ==
    /\ op \in KeyOperations
    /\ is_approved(r, op, res)
    /\ grants' = {[id |-> r, op |-> op, resource |-> res, at |-> now,
                    approvals |-> requests[r].approvals, rejections |-> requests[r].rejections]}
    /\ UNCHANGED <<now, requests, saved, born>>

Tick ==
    /\ \E t \in Instants : t > now /\ now' = t
    /\ UNCHANGED <<requests, saved, born, grants>>

\* The caller keeps a copy of a request as it is now.
persist(r) ==
    /\ r \in DOMAIN requests
    /\ Cardinality(saved) < MaxCopies
    /\ saved' = saved \cup {[id |-> r, copy |-> requests[r]]}
    /\ UNCHANGED <<now, requests, born, grants>>

\* The process stops and its memory is lost.
Restart ==
    /\ requests # [r \in {} |-> 0]
    /\ requests' = [r \in {} |-> 0]
    /\ UNCHANGED <<now, saved, born, grants>>

\* Any copy may be handed in, whatever became of the request after it was made.
restore_request_Overwrite(r) ==    \* mutant: the live request is overwritten
    /\ \E c \in saved : c.id = r /\ requests' = Put(requests, r, c.copy)
    /\ UNCHANGED <<now, saved, born, grants>>
restore_request(r) ==
    /\ r \notin DOMAIN requests
    /\ \E c \in saved : c.id = r /\ requests' = Put(requests, r, c.copy)
    /\ UNCHANGED <<now, saved, born, grants>>

Next ==
    \/ \E r \in RequestIds :
          \/ \E u \in Users, t \in Tenants, op \in Operations,
                res \in Resources : create_request(r, u, t, op, res)
          \/ \E u \in Users : approve(r, u) \/ reject(r, u) \/ cancel(r, u)
          \/ \E op \in Operations, res \in Resources : require_approved(r, op, res)
          \/ persist(r) \/ restore_request(r)
    \/ cleanup_expired
    \/ Tick
    \/ Restart

Spec == Init /\ [][Next]_vars

-----------------------------------------------------------------------------
(* Properties.                                                             *)

Grant == [id : RequestIds, op : Operations, resource : Resources, at : Nat,
          approvals : Seq(Vote), rejections : Seq(Vote)]

\* The shape of the requests, of the copies kept of them and of the history.
TypeOK ==
    /\ now \in Nat
    /\ DOMAIN born \subseteq RequestIds
    /\ \A r \in DOMAIN born : born[r] \in Request
    /\ DOMAIN requests \subseteq DOMAIN born
    /\ \A r \in DOMAIN requests : requests[r] \in Request
    /\ saved \subseteq [id : DOMAIN born, copy : Request]
    /\ grants \subseteq Grant

\* How many different approvers an operation takes.
QuorumSize(op) ==
    LET level == default_required_level(op) IN
    IF level \in {Double, Triple} THEN level ELSE 1

\* An approver whose recorded vote counts for request r: another credential
\* acting in the request's tenant, with authority for the operation, in time.
Counts(r, v) ==
    /\ v.by # born[r].requestor
    /\ ActsIn(v.by, born[r].tenant)
    /\ v.level = LevelOf(v.by)
    /\ v.level >= default_required_level(born[r].op)
    /\ v.at <= born[r].expires

\* The gate of key export, deletion and rotation: whatever was let through
\* was asked for that operation on that resource, was within the deadline set
\* at creation (no copy that is restored extends it), carried at that time the
\* votes of enough different approvers, and nobody's rejection.
GrantsSound ==
    \A g \in grants :
        LET b == born[g.id] IN
        /\ g.op = b.op /\ g.resource = b.resource /\ g.at <= b.expires
        /\ g.rejections = <<>>
        /\ \A i \in DOMAIN g.approvals : Counts(g.id, g.approvals[i])
        /\ \A i, j \in DOMAIN g.approvals :
              g.approvals[i].by = g.approvals[j].by => i = j
        /\ Len(g.approvals) >= QuorumSize(b.op)

\* All there is of a request: the one in memory and the copies kept of it.
Copies(r) ==
    {requests[x] : x \in DOMAIN requests \cap {r}}
      \cup {c.copy : c \in {d \in saved : d.id = r}}

\* A decision is final in the engine that took it: once a request is approved,
\* rejected, cancelled or expired, neither a vote, nor the clean-up, nor
\* restore_request ("the persisted copy is not allowed to silently overwrite
\* the live one") changes anything about it while the process runs.  And when
\* no copy of the request from before its decision is left, neither does a
\* restart: nothing then makes a request that is lost or decided any other.
DecisionsStick ==
    [][\A r \in DOMAIN born :
          /\ r \in DOMAIN requests \cap DOMAIN requests' /\ isTerminal(requests[r].status)
               => requests'[r] = requests[r]
          /\ (\A q \in Copies(r) : isTerminal(q.status)) => Copies(r)' \subseteq Copies(r)]_vars

\* Votes and decisions agree: a rejection is on record exactly in rejected
\* requests, and an open request never has the votes that would complete it.
StatusMatchesVotes ==
    \A r \in DOMAIN requests :
        LET q == requests[r] IN
        /\ q.status = "Rejected" <=> q.rejections # <<>>
        /\ q.status = "Approved" => check_approval_complete(q)
        /\ q.status = "Pending"  => ~check_approval_complete(q)

-----------------------------------------------------------------------------
(* The inductive invariant the proofs of the properties above rest on.     *)

\* A copy of request r, live or kept elsewhere: what was fixed at creation is
\* still there, its votes count, and its status is what the votes say.
Faithful(r, q) ==
    /\ q.op = born[r].op /\ q.resource = born[r].resource
    /\ q.tenant = born[r].tenant /\ q.requestor = born[r].requestor
    /\ q.required = born[r].required /\ q.expires = born[r].expires
    /\ \A i \in DOMAIN q.approvals : Counts(r, q.approvals[i])
    /\ \A i, j \in DOMAIN q.approvals :
          q.approvals[i].by = q.approvals[j].by => i = j
    /\ q.status = "Rejected" <=> q.rejections # <<>>
    /\ q.status = "Approved" => check_approval_complete(q)
    /\ q.status = "Pending"  => ~check_approval_complete(q)

CopyInv ==
    /\ \A r \in DOMAIN born : born[r].required = default_required_level(born[r].op)
    /\ \A r \in DOMAIN requests : Faithful(r, requests[r])
    /\ \A c \in saved : Faithful(c.id, c.copy)

\* What was let through is a request that was created.
GrantInv == GrantsSound /\ \A g \in grants : g.id \in DOMAIN born

IndInv == TypeOK /\ CopyInv /\ GrantInv

=============================================================================
