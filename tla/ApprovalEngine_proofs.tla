----------------------- MODULE ApprovalEngine_proofs -----------------------
(***************************************************************************)
(* Proofs about ApprovalEngine, for any number of requests, credentials    *)
(* and tenants, any assignment of roles and any passage of time.           *)
(***************************************************************************)
EXTENDS ApprovalEngine, TLAPS

-----------------------------------------------------------------------------
(* One request.                                                            *)

\* The levels an operation may ask for: never None.
LEMMA RequiredLevel ==
    ASSUME NEW op \in Operations
    PROVE  default_required_level(op) \in 1..5
<1>1. op \in AllOperations
  BY ConstantsAssumption DEF ConstantsAssumption
<1>. QED BY <1>1 DEF AllOperations, default_required_level, Single, Double,
                     Triple, Manager, Admin

LEMMA LevelType ==
    ASSUME NEW u \in Users
    PROVE  LevelOf(u) \in Level
<1>1. RoleOf[u] \in Role
  BY ConstantsAssumption DEF ConstantsAssumption
<1>. QED BY <1>1 DEF LevelOf, Role, determine_approval_level, Level, None,
                     Single, Double, Triple, Manager, Admin

\* A request nobody has voted on is not complete.
LEMMA EmptyNotComplete ==
    ASSUME NEW q, q.required \in 1..5, q.approvals = <<>>
    PROVE  ~check_approval_complete(q)
<1>1. Len(q.approvals) = 0 /\ DOMAIN q.approvals = {}
  OBVIOUS
<1>7. \/ q.required = 1 \/ q.required = 2 \/ q.required = 3
      \/ q.required = 4 \/ q.required = 5
  OBVIOUS
<1>. USE DEF check_approval_complete, None, Single, Double, Triple, Manager, Admin
<1>2. CASE q.required = 1  BY <1>1, <1>2
<1>3. CASE q.required = 2  BY <1>1, <1>3
<1>4. CASE q.required = 3  BY <1>1, <1>4
<1>5. CASE q.required = 4  BY <1>1, <1>5
<1>6. CASE q.required = 5  BY <1>1, <1>6
<1>. HIDE DEF check_approval_complete
<1>. QED BY <1>2, <1>3, <1>4, <1>5, <1>6, <1>7

\* A complete request has the quorum of its operation.
LEMMA CompleteHasQuorum ==
    ASSUME NEW op \in Operations, NEW q, q.approvals \in Seq(Vote),
           q.required = default_required_level(op), check_approval_complete(q)
    PROVE  Len(q.approvals) >= QuorumSize(op)
<1>1. q.required \in 1..5
  BY RequiredLevel
<1>2. Len(q.approvals) \in Nat /\ DOMAIN q.approvals = 1..Len(q.approvals)
  OBVIOUS
<1>3. CASE q.required = Double
  BY <1>1, <1>2, <1>3 DEF check_approval_complete, QuorumSize, None, Single,
                          Double, Triple, Manager, Admin
<1>7. CASE q.required = Triple
  BY <1>1, <1>2, <1>7 DEF check_approval_complete, QuorumSize, None, Single,
                          Double, Triple, Manager, Admin
<1>4. CASE q.required = Single
  BY <1>1, <1>2, <1>4 DEF check_approval_complete, QuorumSize, None, Single,
                          Double, Triple, Manager, Admin
<1>5. CASE q.required = Manager
  <2>1. \E i \in DOMAIN q.approvals : q.approvals[i].level = Manager
    BY <1>5 DEF check_approval_complete, None, Single, Double, Triple, Manager, Admin
  <2>. QED BY <2>1, <1>2, <1>5 DEF QuorumSize, Double, Triple, Manager
<1>6. CASE q.required = Admin
  <2>1. \E i \in DOMAIN q.approvals : q.approvals[i].level = Admin
    BY <1>6 DEF check_approval_complete, None, Single, Double, Triple, Manager, Admin
  <2>. QED BY <2>1, <1>2, <1>6 DEF QuorumSize, Double, Triple, Admin
<1>. QED BY <1>1, <1>3, <1>4, <1>5, <1>6, <1>7 DEF Single, Double, Triple, Manager, Admin

\* An open request may be expired or cancelled.
LEMMA CloseFaithful ==
    ASSUME NEW r, NEW q \in Request, Faithful(r, q), q.status = "Pending",
           NEW s \in {"Expired", "Cancelled"}
    PROVE  /\ [q EXCEPT !.status = s] \in Request
           /\ Faithful(r, [q EXCEPT !.status = s])
<1>. DEFINE p == [q EXCEPT !.status = s]
<1>1. p \in Request
  BY DEF Request, Status
<1>2. /\ p.op = q.op /\ p.resource = q.resource /\ p.tenant = q.tenant
      /\ p.requestor = q.requestor /\ p.required = q.required
      /\ p.expires = q.expires /\ p.approvals = q.approvals
      /\ p.rejections = q.rejections /\ p.status = s
  BY DEF Request
<1>. HIDE DEF p
<1>3. Faithful(r, p)
  BY <1>1, <1>2 DEF Faithful
<1>. QED BY <1>1, <1>3 DEF p

\* A vote of someone entitled who has not voted, cast in time.
LEMMA VoteFaithful ==
    ASSUME NEW r, NEW q \in Request, Faithful(r, q), q.status = "Pending",
           born[r].required = default_required_level(born[r].op),
           now \in Nat, now <= q.expires, NEW u \in Users, q.requestor # u,
           ActsIn(u, q.tenant), ~VotedIn(q.approvals, u)
    PROVE  /\ WithRejection(q, u) \in Request
           /\ Faithful(r, WithRejection(q, u))
           /\ LevelOf(u) >= q.required =>
                /\ WithApproval(q, u) \in Request
                /\ Faithful(r, WithApproval(q, u))
<1>. DEFINE v == VoteOf(u)
            a == [q EXCEPT !.approvals = Append(q.approvals, v)]
            w == WithApproval(q, u)
            x == WithRejection(q, u)
<1>0. /\ q.approvals \in Seq(Vote) /\ q.rejections \in Seq(Vote)
      /\ q.required \in Level /\ q.status \in Status
  BY DEF Request
<1>1. v \in Vote /\ v.by = u /\ v.level = LevelOf(u) /\ v.at = now
  BY LevelType DEF VoteOf, Vote
<1>2. Append(q.approvals, v) \in Seq(Vote) /\ Append(q.rejections, v) \in Seq(Vote)
      /\ Append(q.rejections, v) # <<>>
  BY <1>0, <1>1
<1>3. x \in Request /\ Faithful(r, x)
  <2>1. x = [q EXCEPT !.rejections = Append(q.rejections, v), !.status = "Rejected"]
    BY DEF WithRejection, Request
  <2>2. x \in Request
    BY <1>2, <2>1 DEF Request, Status
  <2>3. /\ x.op = q.op /\ x.resource = q.resource /\ x.tenant = q.tenant
        /\ x.requestor = q.requestor /\ x.required = q.required
        /\ x.expires = q.expires /\ x.approvals = q.approvals
        /\ x.rejections = Append(q.rejections, v) /\ x.status = "Rejected"
    BY <2>1 DEF Request
  <2>. HIDE DEF x, v
  <2>. QED BY <1>2, <2>2, <2>3 DEF Faithful
<1>4. ASSUME LevelOf(u) >= q.required
      PROVE  w \in Request /\ Faithful(r, w)
  <2>1. a \in Request
    BY <1>2 DEF Request
  <2>2. /\ a.op = q.op /\ a.resource = q.resource /\ a.tenant = q.tenant
        /\ a.requestor = q.requestor /\ a.required = q.required
        /\ a.expires = q.expires /\ a.approvals = Append(q.approvals, v)
        /\ a.rejections = q.rejections /\ a.status = "Pending"
    BY DEF Request
  <2>3. w = [a EXCEPT !.status = IF check_approval_complete(a) THEN "Approved"
                                                               ELSE a.status]
    BY <2>1 DEF WithApproval, Request
  <2>. HIDE DEF a, w, v
  <2>4. w \in Request
    BY <2>1, <2>2, <2>3 DEF Request, Status
  <2>5. /\ w.op = a.op /\ w.resource = a.resource /\ w.tenant = a.tenant
        /\ w.requestor = a.requestor /\ w.required = a.required
        /\ w.expires = a.expires /\ w.approvals = a.approvals
        /\ w.rejections = a.rejections
        /\ w.status = IF check_approval_complete(a) THEN "Approved" ELSE a.status
    BY <2>1, <2>3 DEF Request
  <2>6. check_approval_complete(w) <=> check_approval_complete(a)
    BY <2>5 DEF check_approval_complete
  <2>7. /\ DOMAIN w.approvals = DOMAIN q.approvals \cup {Len(q.approvals) + 1}
        /\ \A i \in DOMAIN q.approvals : w.approvals[i] = q.approvals[i]
        /\ w.approvals[Len(q.approvals) + 1] = v
    BY <1>0, <1>1, <2>2, <2>5
  <2>8. Counts(r, v)
    BY <1>1, <1>4, <1>0 DEF Counts, Faithful
  <2>9. \A i \in DOMAIN w.approvals : Counts(r, w.approvals[i])
    BY <2>7, <2>8 DEF Faithful
  <2>10. \A i \in DOMAIN q.approvals : q.approvals[i].by # v.by
    BY <1>1 DEF VotedIn
  <2>11. \A i, j \in DOMAIN w.approvals :
            w.approvals[i].by = w.approvals[j].by => i = j
    BY <2>7, <2>10 DEF Faithful
  <2>12. w.rejections = <<>> /\ w.status \in {"Approved", "Pending"}
    BY <2>2, <2>5 DEF Faithful
  <2>13. /\ w.status = "Approved" => check_approval_complete(w)
         /\ w.status = "Pending" => ~check_approval_complete(w)
    BY <2>2, <2>5, <2>6
  <2>14. /\ w.op = born[r].op /\ w.resource = born[r].resource
         /\ w.tenant = born[r].tenant /\ w.requestor = born[r].requestor
         /\ w.required = born[r].required /\ w.expires = born[r].expires
    BY <2>2, <2>5 DEF Faithful
  <2>. QED BY <2>4, <2>9, <2>11, <2>12, <2>13, <2>14 DEF Faithful
<1>. QED BY <1>3, <1>4
-----------------------------------------------------------------------------
(* The steps.                                                              *)

\* What approve, reject, cancel and cleanup_expired have in common: open
\* requests in memory change, decided ones and everything else do not.
VoteStep ==
    /\ DOMAIN requests' = DOMAIN requests
    /\ \A r \in DOMAIN requests :
          /\ requests'[r] \in Request
          /\ Faithful(r, requests'[r])
          /\ isTerminal(requests[r].status) => requests'[r] = requests[r]
    /\ UNCHANGED <<now, saved, born, grants>>

LEMMA NotTerminal ==
    ASSUME NEW q \in Request
    PROVE  ~isTerminal(q.status) <=> q.status = "Pending"
BY DEF Request, Status, isTerminal

\* Changing one open request in memory is a VoteStep.
LEMMA UpdateOne ==
    ASSUME IndInv, NEW r \in DOMAIN requests, ~isTerminal(requests[r].status),
           NEW q \in Request, Faithful(r, q),
           requests' = [requests EXCEPT ![r] = q],
           UNCHANGED <<now, saved, born, grants>>
    PROVE  VoteStep
BY DEF VoteStep, IndInv, TypeOK, CopyInv

LEMMA ApproveStep ==
    ASSUME IndInv, NEW r \in RequestIds, NEW u \in Users,
           approve(r, u) \/ reject(r, u)
    PROVE  VoteStep
<1>1. /\ MayVote(r, u) /\ ~isTerminal(requests[r].status)
      /\ UNCHANGED <<now, saved, born, grants>>
  BY DEF approve, reject
<1>2. /\ r \in DOMAIN requests /\ r \in DOMAIN born /\ requests[r] \in Request
      /\ Faithful(r, requests[r]) /\ now \in Nat
      /\ born[r].required = default_required_level(born[r].op)
      /\ ActsIn(u, requests[r].tenant) /\ requests[r].requestor # u
  BY <1>1 DEF MayVote, IndInv, TypeOK, CopyInv
<1>. DEFINE q == requests[r]
<1>3. q.status = "Pending" /\ q.expires \in Nat
  BY <1>1, <1>2, NotTerminal DEF Request
<1>4. CASE Expire(r)
  <2>1. requests' = [requests EXCEPT ![r] = [q EXCEPT !.status = "Expired"]]
    BY <1>4 DEF Expire
  <2>. QED BY <1>1, <1>2, <1>3, <2>1, CloseFaithful, UpdateOne
<1>5. CASE ~Expire(r)
  <2>1. /\ ~Overdue(r) /\ ~AlreadyVoted(r, u)
        /\ \/ /\ requests' = [requests EXCEPT ![r] = WithApproval(q, u)]
              /\ LevelOf(u) >= q.required
           \/ requests' = [requests EXCEPT ![r] = WithRejection(q, u)]
    BY <1>5 DEF approve, reject
  <2>2. now <= q.expires /\ ~VotedIn(q.approvals, u)
    BY <2>1, <1>2, <1>3 DEF Overdue, AlreadyVoted
  <2>3. /\ WithRejection(q, u) \in Request /\ Faithful(r, WithRejection(q, u))
        /\ LevelOf(u) >= q.required =>
             WithApproval(q, u) \in Request /\ Faithful(r, WithApproval(q, u))
    BY <1>2, <1>3, <2>2, VoteFaithful
  <2>4. CASE requests' = [requests EXCEPT ![r] = WithRejection(q, u)]
    BY <1>1, <1>2, <2>3, <2>4, UpdateOne
  <2>5. CASE /\ requests' = [requests EXCEPT ![r] = WithApproval(q, u)]
             /\ LevelOf(u) >= q.required
    BY <1>1, <1>2, <2>3, <2>5, UpdateOne
  <2>. QED BY <2>1, <2>4, <2>5
<1>. QED BY <1>4, <1>5

LEMMA CancelStep ==
    ASSUME IndInv, NEW r \in RequestIds, NEW u \in Users, cancel(r, u)
    PROVE  VoteStep
<1>1. /\ r \in DOMAIN requests /\ requests[r] \in Request
      /\ Faithful(r, requests[r]) /\ ~isTerminal(requests[r].status)
      /\ UNCHANGED <<now, saved, born, grants>>
      /\ requests' = [requests EXCEPT ![r] =
                         [requests[r] EXCEPT !.status = "Cancelled"]]
  BY DEF cancel, IndInv, TypeOK, CopyInv
<1>. QED BY <1>1, NotTerminal, CloseFaithful, UpdateOne

LEMMA CleanupStep ==
    ASSUME IndInv, cleanup_expired
    PROVE  VoteStep
<1>. SUFFICES ASSUME NEW r \in DOMAIN requests
              PROVE  /\ requests'[r] \in Request
                     /\ Faithful(r, requests'[r])
                     /\ isTerminal(requests[r].status) => requests'[r] = requests[r]
  BY DEF VoteStep, cleanup_expired
<1>1. requests[r] \in Request /\ Faithful(r, requests[r])
  BY DEF IndInv, TypeOK, CopyInv
<1>2. CASE requests[r].status = "Pending" /\ Overdue(r)
  <2>1. requests'[r] = [requests[r] EXCEPT !.status = "Expired"]
    BY <1>2 DEF cleanup_expired
  <2>. QED BY <1>1, <1>2, <2>1, CloseFaithful, NotTerminal, ZenonT(40)
<1>3. CASE ~(requests[r].status = "Pending" /\ Overdue(r))
  BY <1>1, <1>3 DEF cleanup_expired
<1>. QED BY <1>2, <1>3

\* What a step may not do to a decided request, lost or not.
Sticks ==
    \A r \in DOMAIN born :
        /\ r \in DOMAIN requests \cap DOMAIN requests' /\ isTerminal(requests[r].status)
             => requests'[r] = requests[r]
        /\ (\A q \in Copies(r) : isTerminal(q.status)) => Copies(r)' \subseteq Copies(r)

\* A step that leaves the copies elsewhere alone makes no new copy of what it
\* keeps in memory, or does not keep.
LEMMA KeptSticks ==
    ASSUME UNCHANGED saved,
           \A r \in DOMAIN born \cap DOMAIN requests' :
              /\ r \in DOMAIN requests
              /\ isTerminal(requests[r].status) => requests'[r] = requests[r]
    PROVE  Sticks
<1>. SUFFICES ASSUME NEW r \in DOMAIN born
              PROVE  /\ r \in DOMAIN requests \cap DOMAIN requests' /\ isTerminal(requests[r].status)
                          => requests'[r] = requests[r]
                     /\ (\A q \in Copies(r) : isTerminal(q.status)) => Copies(r)' \subseteq Copies(r)
  BY DEF Sticks
<1>1. ASSUME \A q \in Copies(r) : isTerminal(q.status), NEW p \in Copies(r)'
      PROVE  p \in Copies(r)
  <2>1. CASE \E c \in saved : c.id = r /\ p = c.copy
    BY <2>1 DEF Copies
  <2>2. CASE r \in DOMAIN requests' /\ p = requests'[r]
    <3>1. r \in DOMAIN requests
      BY <2>2
    <3>2. requests[r] \in Copies(r)
      BY <3>1 DEF Copies
    <3>3. requests'[r] = requests[r]
      BY <1>1, <2>2, <3>2
    <3>. QED BY <2>2, <3>2, <3>3
  <2>. QED BY <1>1, <2>1, <2>2 DEF Copies
<1>. QED BY <1>1

\* A copy stays faithful when no request is created.
LEMMA FaithfulStays ==
    ASSUME UNCHANGED born, NEW r, NEW q, Faithful(r, q) PROVE Faithful(r, q)'
BY DEF Faithful, Counts

\* So does what was let through.
LEMMA GrantsStay ==
    ASSUME IndInv, UNCHANGED <<born, grants>> PROVE GrantInv'
BY DEF IndInv, GrantInv, GrantsSound, Counts

LEMMA VoteStepKeeps ==
    ASSUME IndInv, VoteStep
    PROVE  IndInv' /\ Sticks
<1>1. Sticks
  BY KeptSticks DEF VoteStep
<1>2. TypeOK'
  BY DEF VoteStep, IndInv, TypeOK
<1>3. CopyInv'
  BY DEF VoteStep, IndInv, CopyInv, Faithful, Counts
<1>4. GrantInv'
  BY GrantsStay DEF VoteStep
<1>. QED BY <1>1, <1>2, <1>3, <1>4 DEF IndInv

LEMMA CreateKeeps ==
    ASSUME IndInv, NEW r \in RequestIds, NEW u \in Users, NEW t \in Tenants,
           NEW op \in Operations, NEW res \in Resources,
           create_request(r, u, t, op, res)
    PROVE  IndInv' /\ Sticks
<1>. DEFINE q == NewRequest(u, t, op, res)
<1>1. /\ requests' = Put(requests, r, q) /\ born' = Put(born, r, q)
      /\ UNCHANGED <<now, saved, grants>> /\ r \notin DOMAIN born
  BY DEF create_request
<1>2. default_required_level(op) \in 1..5 /\ now \in Nat
  BY RequiredLevel DEF IndInv, TypeOK
<1>3. Timeout(default_required_level(op)) \in Nat
  BY <1>2 DEF Timeout, None, Single, Double, Triple, Manager, Admin
<1>4. /\ q.required = default_required_level(op) /\ q.op = op
      /\ q.approvals = <<>> /\ q.rejections = <<>> /\ q.status = "Pending"
  BY DEF NewRequest
<1>5. q \in Request
  BY <1>2, <1>3 DEF NewRequest, Request, Status, Level, None, Admin
<1>. HIDE DEF q
<1>6. ~check_approval_complete(q)
  BY <1>2, <1>4, EmptyNotComplete
<1>7. r \notin DOMAIN requests /\ \A c \in saved : c.id \in DOMAIN born
  BY <1>1 DEF IndInv, TypeOK
<1>8. /\ DOMAIN requests' = DOMAIN requests \cup {r} /\ requests'[r] = q
      /\ DOMAIN born' = DOMAIN born \cup {r} /\ born'[r] = q
      /\ \A x \in DOMAIN requests : requests'[x] = requests[x]
      /\ \A x \in DOMAIN born : born'[x] = born[x]
  BY <1>1, <1>7 DEF Put
<1>9. Sticks
  BY <1>1, <1>8, KeptSticks
<1>10. TypeOK'
  BY <1>1, <1>5, <1>8 DEF IndInv, TypeOK
<1>11. CopyInv'
  <2>1. (\A x \in DOMAIN born : born[x].required = default_required_level(born[x].op))'
    BY <1>4, <1>8 DEF IndInv, CopyInv
  <2>2. Faithful(r, requests[r])'
    BY <1>4, <1>6, <1>8 DEF Faithful
  <2>3. ASSUME NEW x \in DOMAIN born, NEW p, Faithful(x, p)
        PROVE  Faithful(x, p)'
    BY <1>8, <2>3 DEF Faithful, Counts
  <2>4. \A x \in DOMAIN requests : x \in DOMAIN born /\ Faithful(x, requests[x])
    BY DEF IndInv, TypeOK, CopyInv
  <2>5. \A x \in DOMAIN requests' : Faithful(x, requests[x])'
    BY <1>8, <2>2, <2>3, <2>4
  <2>6. \A c \in saved' : Faithful(c.id, c.copy)'
    BY <1>1, <1>7, <2>3 DEF IndInv, CopyInv
  <2>. QED BY <2>1, <2>5, <2>6 DEF CopyInv
<1>12. GrantInv'
  BY <1>1, <1>8 DEF IndInv, GrantInv, GrantsSound, Counts
<1>. QED BY <1>9, <1>10, <1>11, <1>12 DEF IndInv

\* What passes the gate is complete when it does.
LEMMA GateKeeps ==
    ASSUME IndInv, NEW r \in RequestIds, NEW op \in Operations,
           NEW res \in Resources, require_approved(r, op, res)
    PROVE  IndInv' /\ Sticks
<1>. DEFINE q == requests[r]
            g == [id |-> r, op |-> op, resource |-> res, at |-> now,
                  approvals |-> q.approvals, rejections |-> q.rejections]
<1>1. /\ is_approved(r, op, res) /\ grants' = {g}
      /\ UNCHANGED <<now, requests, saved, born>>
  BY DEF require_approved
<1>2. /\ r \in DOMAIN born /\ q \in Request /\ Faithful(r, q)
      /\ q.status = "Approved" /\ q.op = op /\ q.resource = res
      /\ now <= q.expires /\ check_approval_complete(q)
      /\ born[r] \in Request /\ born[r].required = default_required_level(born[r].op)
  BY <1>1 DEF is_approved, IndInv, TypeOK, CopyInv
<1>3. q.approvals \in Seq(Vote) /\ q.rejections \in Seq(Vote) /\ born[r].op \in Operations
  BY <1>2 DEF Request
<1>. HIDE DEF q
<1>4. /\ g.id = r /\ g.op = op /\ g.resource = res /\ g.at = now
      /\ g.approvals = q.approvals /\ g.rejections = q.rejections
  OBVIOUS
<1>5. g \in Grant
  BY <1>3 DEF Grant, IndInv, TypeOK
<1>. HIDE DEF g
<1>6. TypeOK'
  BY <1>1, <1>5 DEF IndInv, TypeOK
<1>7. CopyInv'
  BY <1>1 DEF IndInv, CopyInv, Faithful, Counts
<1>8. Len(q.approvals) >= QuorumSize(born[r].op)
  BY <1>2, <1>3, CompleteHasQuorum DEF Faithful
<1>9. /\ op = born[r].op /\ res = born[r].resource /\ now <= born[r].expires
      /\ q.rejections = <<>>
      /\ \A i \in DOMAIN q.approvals : Counts(r, q.approvals[i])
      /\ \A i, j \in DOMAIN q.approvals :
            q.approvals[i].by = q.approvals[j].by => i = j
  BY <1>2 DEF Faithful
<1>10. GrantInv'
  BY <1>1, <1>2, <1>4, <1>8, <1>9 DEF GrantInv, GrantsSound, Counts
<1>11. Sticks
  BY <1>1, KeptSticks
<1>. QED BY <1>6, <1>7, <1>10, <1>11 DEF IndInv

LEMMA TickKeeps ==
    ASSUME IndInv, Tick \/ UNCHANGED vars
    PROVE  IndInv' /\ Sticks
<1>1. UNCHANGED <<requests, saved, born, grants>> /\ now' \in Nat
  BY ConstantsAssumption DEF ConstantsAssumption, Tick, vars, IndInv, TypeOK
<1>2. Sticks
  BY <1>1, KeptSticks
<1>3. TypeOK'
  BY <1>1 DEF IndInv, TypeOK
<1>4. CopyInv'
  BY <1>1 DEF IndInv, CopyInv, Faithful, Counts
<1>5. GrantInv'
  BY <1>1, GrantsStay
<1>. QED BY <1>2, <1>3, <1>4, <1>5 DEF IndInv

\* A copy that is kept is a copy there was.
LEMMA PersistKeeps ==
    ASSUME IndInv, NEW r \in RequestIds, persist(r)
    PROVE  IndInv' /\ Sticks
<1>. DEFINE e == [id |-> r, copy |-> requests[r]]
<1>1. /\ r \in DOMAIN requests /\ saved' = saved \cup {e}
      /\ UNCHANGED <<now, requests, born, grants>>
  BY DEF persist
<1>2. /\ r \in DOMAIN born /\ requests[r] \in Request /\ Faithful(r, requests[r])
      /\ e.id = r /\ e.copy = requests[r]
  BY <1>1 DEF IndInv, TypeOK, CopyInv
<1>. HIDE DEF e
<1>3. Sticks
  <2>1. ASSUME NEW x \in DOMAIN born, NEW p \in Copies(x)' PROVE p \in Copies(x)
    <3>1. CASE \E c \in saved' : c.id = x /\ p = c.copy
      BY <1>1, <1>2, <3>1 DEF Copies
    <3>2. CASE x \in DOMAIN requests' /\ p = requests'[x]
      BY <1>1, <3>2 DEF Copies
    <3>. QED BY <2>1, <3>1, <3>2 DEF Copies
  <2>2. \A x \in DOMAIN born : Copies(x)' \subseteq Copies(x)
    BY <2>1
  <2>. QED BY <1>1, <2>2 DEF Sticks
<1>4. TypeOK'
  <2>1. e \in [id : DOMAIN born, copy : Request]
    BY <1>2 DEF e
  <2>. QED BY <1>1, <2>1 DEF IndInv, TypeOK
<1>5. CopyInv'
  BY <1>1, <1>2, FaithfulStays DEF IndInv, CopyInv
<1>6. GrantInv'
  BY <1>1, GrantsStay
<1>. QED BY <1>3, <1>4, <1>5, <1>6 DEF IndInv

\* A restart only loses.
LEMMA RestartKeeps ==
    ASSUME IndInv, Restart
    PROVE  IndInv' /\ Sticks
<1>1. DOMAIN requests' = {} /\ UNCHANGED <<now, saved, born, grants>>
  BY DEF Restart
<1>2. Sticks
  BY <1>1, KeptSticks
<1>3. TypeOK'
  BY <1>1 DEF IndInv, TypeOK
<1>4. CopyInv'
  BY <1>1, FaithfulStays DEF IndInv, CopyInv
<1>5. GrantInv'
  BY <1>1, GrantsStay
<1>. QED BY <1>2, <1>3, <1>4, <1>5 DEF IndInv

\* What is restored is one of the copies, of a request that is not in memory.
LEMMA RestoreKeeps ==
    ASSUME IndInv, NEW r \in RequestIds, restore_request(r)
    PROVE  IndInv' /\ Sticks
<1>1. PICK c \in saved : c.id = r /\ requests' = Put(requests, r, c.copy)
  BY DEF restore_request
<1>2. r \notin DOMAIN requests /\ UNCHANGED <<now, saved, born, grants>>
  BY DEF restore_request
<1>3. r \in DOMAIN born /\ c.copy \in Request /\ Faithful(r, c.copy)
  BY <1>1 DEF IndInv, TypeOK, CopyInv
<1>4. /\ DOMAIN requests' = DOMAIN requests \cup {r} /\ requests'[r] = c.copy
      /\ \A x \in DOMAIN requests : requests'[x] = requests[x]
  BY <1>1, <1>2 DEF Put
<1>5. Sticks
  <2>1. ASSUME NEW x \in DOMAIN born, NEW p \in Copies(x)' PROVE p \in Copies(x)
    <3>1. CASE \E d \in saved' : d.id = x /\ p = d.copy
      BY <1>2, <3>1 DEF Copies
    <3>2. CASE x \in DOMAIN requests' /\ p = requests'[x]
      <4>1. CASE x = r
        BY <1>1, <1>4, <3>2, <4>1 DEF Copies
      <4>2. CASE x # r
        BY <1>4, <3>2, <4>2 DEF Copies
      <4>. QED BY <4>1, <4>2
    <3>. QED BY <2>1, <3>1, <3>2 DEF Copies
  <2>2. \A x \in DOMAIN born : Copies(x)' \subseteq Copies(x)
    BY <2>1
  <2>. QED BY <1>4, <2>2 DEF Sticks
<1>6. TypeOK'
  BY <1>2, <1>3, <1>4 DEF IndInv, TypeOK
<1>7. CopyInv'
  BY <1>2, <1>3, <1>4, FaithfulStays DEF IndInv, CopyInv
<1>8. GrantInv'
  BY <1>2, GrantsStay
<1>. QED BY <1>5, <1>6, <1>7, <1>8 DEF IndInv

-----------------------------------------------------------------------------
(* The theorems.                                                           *)

LEMMA InitIndInv == Init => IndInv
<1>. SUFFICES ASSUME Init PROVE IndInv
  OBVIOUS
<1>1. DOMAIN requests = {} /\ saved = {} /\ DOMAIN born = {} /\ grants = {}
      /\ now = 0
  BY DEF Init
<1>. QED BY <1>1 DEF IndInv, TypeOK, CopyInv, GrantInv, GrantsSound

LEMMA NextIndInv ==
    ASSUME IndInv, [Next]_vars
    PROVE  IndInv' /\ Sticks
<1>. DEFINE Goal == IndInv' /\ Sticks
<1>. SUFFICES Goal
  OBVIOUS
<1>1. ASSUME NEW r \in RequestIds, NEW u \in Users, NEW t \in Tenants,
             NEW op \in Operations, NEW res \in Resources,
             create_request(r, u, t, op, res)
      PROVE  Goal
  BY <1>1, CreateKeeps
<1>2. ASSUME NEW r \in RequestIds, NEW u \in Users,
             approve(r, u) \/ reject(r, u) \/ cancel(r, u)
      PROVE  Goal
  BY <1>2, ApproveStep, CancelStep, VoteStepKeeps
<1>3. ASSUME NEW r \in RequestIds, NEW op \in Operations, NEW res \in Resources,
             require_approved(r, op, res)
      PROVE  Goal
  BY <1>3, GateKeeps
<1>4. CASE cleanup_expired
  BY <1>4, CleanupStep, VoteStepKeeps
<1>5. CASE Tick
  BY <1>5, TickKeeps
<1>9. CASE UNCHANGED vars
  BY <1>9, TickKeeps
<1>6. CASE Restart
  BY <1>6, RestartKeeps
<1>10. ASSUME NEW r \in RequestIds, persist(r) \/ restore_request(r)
       PROVE  Goal
  BY <1>10, PersistKeeps, RestoreKeeps
<1>. HIDE DEF Goal
<1>8. CASE Next
  <2>1. CASE \E r \in RequestIds, u \in Users, t \in Tenants, op \in Operations,
               res \in Resources : create_request(r, u, t, op, res)
    BY <1>1, <2>1
  <2>2. CASE \E r \in RequestIds, u \in Users :
               approve(r, u) \/ reject(r, u) \/ cancel(r, u)
    BY <1>2, <2>2
  <2>3. CASE \E r \in RequestIds, op \in Operations, res \in Resources :
               require_approved(r, op, res)
    BY <1>3, <2>3
  <2>4. CASE \E r \in RequestIds : persist(r) \/ restore_request(r)
    BY <1>10, <2>4
  <2>. QED BY <1>4, <1>5, <1>6, <1>8, <2>1, <2>2, <2>3, <2>4 DEF Next
<1>. QED BY <1>8, <1>9

\* The inductive invariant holds in every reachable state.
THEOREM Invariance == Spec => []IndInv
<1>1. IndInv /\ [Next]_vars => IndInv'
  BY NextIndInv
<1>. QED BY InitIndInv, <1>1, PTL DEF Spec

\* Requests, the copies kept of them and history keep their shape.
THEOREM TypeCorrect == Spec => []TypeOK
<1>1. IndInv => TypeOK
  BY DEF IndInv
<1>. QED BY <1>1, Invariance, PTL

\* Votes and decisions agree, live and after any number of restarts, whatever
\* copies are restored.
THEOREM VotesDecide == Spec => []StatusMatchesVotes
<1>1. IndInv => StatusMatchesVotes
  BY DEF IndInv, CopyInv, Faithful, StatusMatchesVotes
<1>. QED BY <1>1, Invariance, PTL

\* require_approved lets nothing through without the quorum, in time, of
\* different credentials entitled to vote in the request's tenant.
THEOREM GateIsSound == Spec => []GrantsSound
<1>1. IndInv => GrantsSound
  BY DEF IndInv, GrantInv
<1>. QED BY <1>1, Invariance, PTL

\* While the process runs a decided request never changes again, and once all
\* there is of a request is decided or lost, no restart and no copy that is
\* restored after it makes it any other.
THEOREM DecisionsAreFinal == Spec => DecisionsStick
<1>1. IndInv /\ [Next]_vars =>
        [\A r \in DOMAIN born :
            /\ r \in DOMAIN requests \cap DOMAIN requests' /\ isTerminal(requests[r].status)
                 => requests'[r] = requests[r]
            /\ (\A q \in Copies(r) : isTerminal(q.status))
                 => Copies(r)' \subseteq Copies(r)]_vars
  <2>. SUFFICES ASSUME IndInv, Next
                PROVE  Sticks
    BY DEF Sticks
  <2>. QED BY NextIndInv
<1>. QED BY <1>1, Invariance, PTL DEF Spec, DecisionsStick

=============================================================================
