----------------------------- MODULE BreakGlass -----------------------------
(***************************************************************************)
(* Emergency access next to the normal approval flow: the break glass part *)
(* of crates/kms-approval/src/lib.rs.  Requests are kept in memory behind  *)
(* the engine's lock, an action is a whole call.  `confirmed' and          *)
(* `activated' are history: which calls of the two confirmations succeeded *)
(* and when.                                                               *)
(***************************************************************************)
EXTENDS Integers

CONSTANTS
    RequestIds,  \* ids create_break_glass_request may draw
    Users,       \* requestors and approvers
    Resources,
    Durations,   \* the minutes callers ask for (any u32)
    Instants     \* clock readings, in minutes

ASSUME ConstantsAssumption ==
    /\ Durations \subseteq Nat
    /\ Instants \subseteq Nat

VARIABLES
    now,        \* Utc::now(), in minutes
    requests,   \* break_glass_requests: a function on the ids in memory
    confirmed,  \* <<id, user>>: successful confirmations of a first approver
    activated   \* [id, by, at]: successful confirmations of a second one

vars == <<now, requests, confirmed, activated>>

-----------------------------------------------------------------------------

MAX_BREAK_GLASS_DURATION_MINS == 60

BreakGlassStatus == {"PendingDualApproval", "Activated", "Expired", "Cancelled"}

BreakGlassRequest ==
    [resource : Resources, requestor : Users, first : Users, second : Users,
     created : Nat, expires : Nat, status : BreakGlassStatus]

Put(f, k, e) == [x \in DOMAIN f \cup {k} |-> IF x = k THEN e ELSE f[x]]

Init ==
    /\ now = 0
    /\ requests = [r \in {} |-> 0]
    /\ confirmed = {}
    /\ activated = {}

Capped_Not(minutes) == minutes    \* mutant: the duration is not capped
Capped(minutes) ==
    IF minutes < MAX_BREAK_GLASS_DURATION_MINS
    THEN minutes ELSE MAX_BREAK_GLASS_DURATION_MINS

NewRequest(res, u, first, second, minutes) ==
    [resource |-> res, requestor |-> u, first |-> first, second |-> second,
     created |-> now, expires |-> now + Capped(minutes),
     status |-> "PendingDualApproval"]

\* Only the two approvers must differ; the requestor may be one of them.
create_break_glass_request(r, res, u, first, second, minutes) ==
    /\ r \notin DOMAIN requests
    /\ first # second
    /\ requests' = Put(requests, r, NewRequest(res, u, first, second, minutes))
    /\ UNCHANGED <<now, confirmed, activated>>

SetStatus(r, s) == requests' = [requests EXCEPT ![r].status = s]

Overdue(r) == now > requests[r].expires

Awaiting(r) ==
    r \in DOMAIN requests /\ requests[r].status = "PendingDualApproval"

\* The first confirmation is logged and changes nothing; only `confirmed'
\* remembers it.
confirm_break_glass_first(r, u) ==
    /\ Awaiting(r)
    /\ requests[r].first = u
    /\ \/ Overdue(r) /\ SetStatus(r, "Expired") /\ UNCHANGED confirmed
       \/ ~Overdue(r) /\ confirmed' = confirmed \cup {<<r, u>>} /\ UNCHANGED requests
    /\ UNCHANGED <<now, activated>>

confirm_break_glass_second(r, u) ==
    /\ Awaiting(r)
    /\ requests[r].second = u
    /\ \/ Overdue(r) /\ SetStatus(r, "Expired") /\ UNCHANGED activated
       \/ /\ ~Overdue(r)
          /\ SetStatus(r, "Activated")
          /\ activated' = activated \cup {[id |-> r, by |-> u, at |-> now]}
    /\ UNCHANGED <<now, confirmed>>

MayCancel_Any(r) == requests[r].status # "Expired"   \* mutant: Activated forgotten
MayCancel(r) == requests[r].status \notin {"Activated", "Expired"}

cancel_break_glass(r, u) ==
    /\ r \in DOMAIN requests
    /\ requests[r].requestor = u
    /\ MayCancel(r)
    /\ SetStatus(r, "Cancelled")
    /\ UNCHANGED <<now, confirmed, activated>>

\* Only activated requests are cleaned up.
cleanup_expired_break_glass ==
    /\ \E r \in DOMAIN requests : requests[r].status = "Activated" /\ Overdue(r)
    /\ requests' = [r \in DOMAIN requests |->
                      IF requests[r].status = "Activated" /\ Overdue(r)
                      THEN [requests[r] EXCEPT !.status = "Expired"]
                      ELSE requests[r]]
    /\ UNCHANGED <<now, confirmed, activated>>

is_break_glass_active(res) ==
    \E r \in DOMAIN requests :
        /\ requests[r].resource = res
        /\ requests[r].status = "Activated"
        /\ now <= requests[r].expires

Tick ==
    /\ \E t \in Instants : t > now /\ now' = t
    /\ UNCHANGED <<requests, confirmed, activated>>

Next ==
    \/ \E r \in RequestIds :
          \/ \E res \in Resources, u, first, second \in Users,
                minutes \in Durations :
                create_break_glass_request(r, res, u, first, second, minutes)
          \/ \E u \in Users :
                \/ confirm_break_glass_first(r, u)
                \/ confirm_break_glass_second(r, u)
                \/ cancel_break_glass(r, u)
    \/ cleanup_expired_break_glass
    \/ Tick

Spec == Init /\ [][Next]_vars

-----------------------------------------------------------------------------
(* Properties.                                                             *)

\* The shape of the requests and of the history.
TypeOK ==
    /\ now \in Nat
    /\ DOMAIN requests \subseteq RequestIds
    /\ \A r \in DOMAIN requests : requests[r] \in BreakGlassRequest
    /\ confirmed \subseteq (RequestIds \X Users)
    /\ activated \subseteq [id : RequestIds, by : Users, at : Nat]

\* "Short duration (max 60 minutes, auto-revoked)": whatever duration was
\* asked for, whether or not the clean-up runs, emergency access to a
\* resource is open at most an hour after some request for it was made, and
\* only if the second approver named in it confirmed in time.
AccessBounded ==
    \A res \in Resources :
        is_break_glass_active(res) =>
            \E r \in DOMAIN requests :
                /\ requests[r].resource = res
                /\ now <= requests[r].created + MAX_BREAK_GLASS_DURATION_MINS
                /\ \E a \in activated :
                      a.id = r /\ a.by = requests[r].second
                               /\ a.at <= requests[r].expires

\* An emergency access that was granted cannot be erased from the record by
\* its requestor, and a cancelled or expired one is never opened again.
OutcomeFinal ==
    [][\A r \in DOMAIN requests :
          LET s == requests[r].status
              t == requests'[r].status IN
          /\ s \in {"Cancelled", "Expired"} => t = s
          /\ s = "Activated" => t \in {"Activated", "Expired"}]_vars

=============================================================================
