------------------------------- MODULE Anomaly -------------------------------
(***************************************************************************)
(* AnomalyDetector::check_access, crates/kms-api/src/anomaly.rs, for the   *)
(* users of one tenant.                                                    *)
(*                                                                         *)
(* A check records the access under one lock, counts under a second and    *)
(* looks at the failed logins under a third, so that other checks come in  *)
(* between.  The hours of work are a set of times.                         *)
(***************************************************************************)
EXTENDS Naturals, Sequences, FiniteSets

CONSTANTS
    MaxAccesses,      \* bound: the accesses checked
    AccessUsers,      \* the users of the tenant
    MaxOpsPerMinute,  \* max_ops_per_minute (100)
    MaxAuthFailures,  \* max_auth_failures (5)
    FailureWindow,    \* the minutes that failed logins count for (15)
    WorkHours,        \* the times from work_start_hour to work_end_hour, on weekdays
    LastTime          \* bound: the clock

ASSUME AnomalyAssumption ==
    /\ {MaxOpsPerMinute, MaxAuthFailures, FailureWindow} \subseteq Nat \ {0}
    /\ {MaxAccesses, LastTime} \subseteq Nat /\ WorkHours \subseteq 0..LastTime

VARIABLES
    time,            \* the clock, in minutes
    checks,          \* the accesses: [at, user, failed, alert, ended, cleared]
    operations,      \* user -> the sum of operations_by_hour
    recentFailures   \* recent_failures of the tenant: when, and of which access

anomalyVars == <<time, checks, operations, recentFailures>>

AnomalyInit ==
    /\ time = 0
    /\ checks = <<>>
    /\ operations = [u \in AccessUsers |-> 0]
    /\ recentFailures = {}

\* failed is for an operation "auth" or "login" without success, which alone is
\* looked at more closely.
Access(u, failed) == [at |-> "count", user |-> u, failed |-> failed, alert |-> "none",
                      ended |-> 0, cleared |-> FALSE]

EndsWith(access, alert) == [access EXCEPT !.at = "done", !.alert = alert,
                                      !.ended = IF access.failed THEN time ELSE 0]
End(a, alert) == checks' = [checks EXCEPT ![a] = EndsWith(@, alert)]

\* check_off_hours ends the check before anything is recorded.
check_off_hours(access) ==
    /\ time \notin WorkHours
    /\ checks' = Append(checks, EndsWith(access, "OffHoursAccess"))
    /\ UNCHANGED operations

record_operation(u) == operations' = [operations EXCEPT ![u] = @ + 1]

record_access(access) ==
    /\ time \in WorkHours
    /\ checks' = Append(checks, access)
    /\ record_operation(access.user)

check_access(access) ==
    /\ Len(checks) < MaxAccesses
    /\ check_off_hours(access) \/ record_access(access)
    /\ UNCHANGED <<time, recentFailures>>

\* mutant: the sum is cut to the limit
count_recent_ops_Window(u) == IF operations[u] > MaxOpsPerMinute THEN MaxOpsPerMinute ELSE operations[u]

\* Every operation the user ever made; a sum past the limit is cut to one past it.
count_recent_ops(u) == IF operations[u] > MaxOpsPerMinute THEN MaxOpsPerMinute + 1 ELSE operations[u]

check_high_frequency(a) ==
    /\ checks[a].at = "count"
    /\ IF count_recent_ops(checks[a].user) > MaxOpsPerMinute
       THEN End(a, "HighFrequency")
       ELSE IF checks[a].failed
       THEN checks' = [checks EXCEPT ![a].at = "failures"]
       ELSE End(a, "none")
    /\ UNCHANGED <<time, operations, recentFailures>>

\* mutant: a minute shorter
Kept_Shorter(failures) == {f \in failures : f.at + FailureWindow > time + 1}

\* The failures that are not yet FailureWindow old.
Kept(failures) == {f \in failures : f.at + FailureWindow > time}

check_auth_failures(a) ==
    LET failures == Kept(recentFailures) \cup {[by |-> a, at |-> time]}
    IN  /\ checks[a].at = "failures"
        /\ recentFailures' = failures
        /\ End(a, IF Cardinality(failures) >= MaxAuthFailures THEN "AuthFailure" ELSE "none")
        /\ UNCHANGED <<time, operations>>

Forgotten == [at |-> "forgotten"]

\* clear_stats forgets the tenant, its failures included.
clear_stats ==
    /\ operations' = [u \in AccessUsers |-> 0]
    /\ recentFailures' = {}
    /\ checks' = [a \in DOMAIN checks |-> IF checks[a].at \in {"done", "forgotten"} THEN Forgotten
                                           ELSE [checks[a] EXCEPT !.cleared = TRUE]]
    /\ UNCHANGED time

TimePasses == time < LastTime /\ time' = time + 1 /\ UNCHANGED <<checks, operations, recentFailures>>

AnomalyNext ==
    \/ \E u \in AccessUsers, failed \in BOOLEAN : check_access(Access(u, failed))
    \/ \E a \in DOMAIN checks : check_high_frequency(a) \/ check_auth_failures(a)
    \/ clear_stats
    \/ TimePasses

-----------------------------------------------------------------------------
(* Properties.                                                             *)

Ended == {a \in DOMAIN checks : checks[a].at = "done" /\ ~checks[a].cleared}

\* However the checks overlap, failed logins of a tenant that end within the
\* window and are as many as the limit do not all go without an alert.
NoSilentGuessing ==
    \A g \in SUBSET {a \in Ended : checks[a].failed} :
      Cardinality(g) = MaxAuthFailures
        /\ (\A a, b \in g : checks[a].ended < checks[b].ended + FailureWindow)
        => \E a \in g : checks[a].alert # "none"

\* More accesses of one user than the limit are not all without an alert; and
\* only a user who has made more is said to have (there is no window: they
\* may have been made at any time).
NoSilentBurst ==
    \A u \in AccessUsers :
      LET mine == {a \in Ended : checks[a].user = u}
      IN  /\ Cardinality(mine) > MaxOpsPerMinute => \E a \in mine : checks[a].alert # "none"
          /\ (\E a \in mine : checks[a].alert = "HighFrequency") => operations[u] > MaxOpsPerMinute

\* The detector overlooks no burst of accesses and no series of guesses.
AnomalySound == NoSilentGuessing /\ NoSilentBurst

=============================================================================
