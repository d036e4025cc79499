--------------------------- MODULE RotationScheduler ---------------------------
(***************************************************************************)
(* RotationService, crates/kms-api/src/rotation.rs: check_and_rotate reads *)
(* a key's metadata, its operation counter and the metadata once more, and *)
(* rotates the key if its policy said so.  Several services, or an         *)
(* operator, may be at it at once.                                         *)
(***************************************************************************)
EXTENDS Naturals, FiniteSets

CONSTANTS
    Schedulers,
    RotationPolicies,   \* the policies in question: [kind, days, operations, versions]
    LastVersion,        \* bound: versions
    LastDay,            \* bound: days
    LastOperation       \* bound: the operation counter

ASSUME SchedulerAssumption ==
    /\ {LastVersion, LastDay, LastOperation} \subseteq Nat
    /\ IsFiniteSet(Schedulers)
    /\ \A p \in RotationPolicies : {p.days, p.operations, p.versions} \subseteq Nat

VARIABLES
    policy,      \* RotationService.policy
    key,         \* [version, age, ops, alive]
    plan,        \* scheduler -> its call: what it read, and whether the key was due in between
    today,       \* days so far
    early,       \* a version that was not due went, and no other rotation was in between (history)
    automatic    \* rotations of the schedulers (history)

rotationVars == <<policy, key, plan, today, early, automatic>>

NoPlan == [at |-> "idle", age |-> 0, version |-> 0, raced |-> FALSE, wasDue |-> FALSE]

RotationInit ==
    /\ policy \in RotationPolicies
    /\ key = [version |-> 1, age |-> 0, ops |-> 0, alive |-> TRUE]
    /\ plan = [s \in Schedulers |-> NoPlan]
    /\ today = 0
    /\ early = FALSE
    /\ automatic = 0

\* RotationPolicy::needs_rotation.
needs_rotation(age, version, ops) ==
    LET old == age > policy.days
        used == ops >= policy.operations
        many == version >= policy.versions
    IN  \/ policy.kind \in {"time", "combined"} /\ old
        \/ policy.kind \in {"usage", "combined"} /\ used
        \/ policy.kind \in {"version", "combined"} /\ many
Due == needs_rotation(key.age, key.version, key.ops)

Planned(s, at) == plan[s].at = at

\* check_rotation, first half: the metadata.
read_metadata(s) ==
    /\ Planned(s, "idle")
    /\ plan' = [plan EXCEPT ![s] = [NoPlan EXCEPT !.at = "count", !.version = key.version,
                                                  !.age = key.age, !.wasDue = Due]]
    /\ UNCHANGED <<policy, key, today, early, automatic>>

\* Second half: the operation counter (an error reads 0) and the verdict; a key
\* that is not due ends the call.
read_count_Ignored(s) ==    \* mutant: the verdict is not looked at
    /\ Planned(s, "count")
    /\ plan' = [plan EXCEPT ![s].at = "rotate"]
    /\ UNCHANGED <<policy, key, today, early, automatic>>
read_count(s) ==
    /\ Planned(s, "count")
    /\ LET p == plan[s]
       IN  \E ops \in {key.ops, 0} :
             plan' = [plan EXCEPT ![s] = IF needs_rotation(p.age, p.version, ops)
                                         THEN [p EXCEPT !.at = "rotate", !.wasDue = @ \/ Due]
                                         ELSE NoPlan]
    /\ UNCHANGED <<policy, key, today, early, automatic>>

\* A new version: its age starts again, its operation counter does not.
Rotated(k) == [k EXCEPT !.version = @ + 1, !.age = 0]
Overlap == [s \in Schedulers |-> IF Planned(s, "idle") THEN plan[s] ELSE [plan[s] EXCEPT !.raced = TRUE]]

\* rotate_key, for SM9 keys through their adapter, or an error.
rotate_due(s) ==
    /\ Planned(s, "rotate")
    /\ \/ /\ key.alive /\ key.version < LastVersion
          /\ key' = Rotated(key)
          /\ plan' = [Overlap EXCEPT ![s] = NoPlan]
          /\ early' = (early \/ (~plan[s].wasDue /\ ~plan[s].raced))
          /\ automatic' = automatic + 1
       \/ plan' = [plan EXCEPT ![s] = NoPlan] /\ UNCHANGED <<key, early, automatic>>
    /\ UNCHANGED <<policy, today>>

\* An operator rotates or deletes the key; it is used; a day passes.
rotate_manually ==
    /\ key.alive /\ key.version < LastVersion
    /\ key' = Rotated(key)
    /\ plan' = Overlap
    /\ UNCHANGED <<policy, today, early, automatic>>
delete_meanwhile ==
    /\ key.alive
    /\ key' = [key EXCEPT !.alive = FALSE]
    /\ UNCHANGED <<policy, plan, today, early, automatic>>
increment_operations ==
    /\ key.alive /\ key.ops < LastOperation
    /\ key' = [key EXCEPT !.ops = @ + 1]
    /\ UNCHANGED <<policy, plan, today, early, automatic>>
DayPasses ==
    /\ today < LastDay
    /\ today' = today + 1
    /\ key' = [key EXCEPT !.age = @ + 1]
    /\ UNCHANGED <<policy, plan, early, automatic>>

RotationNext ==
    \/ \E s \in Schedulers : read_metadata(s) \/ read_count(s) \/ rotate_due(s)
    \/ rotate_manually \/ delete_meanwhile \/ increment_operations \/ DayPasses

RotationSpec == RotationInit /\ [][RotationNext]_rotationVars

-----------------------------------------------------------------------------
(* Properties.                                                             *)

\* A version is rotated away by the scheduler only when its policy was met
\* while the call ran, unless another rotation came between the check and the
\* rotation: that one's fresh version goes too.
RotatedWhenDue == ~early

\* A time policy does not run away: in every period of its days the schedulers
\* rotate the key once, and once more for every other one whose check came
\* before the first rotation.
OncePerPeriod ==
    policy.kind = "time" => automatic <= Cardinality(Schedulers) * (today \div (policy.days + 1))

\* Keys are rotated when their policy asks for it, and not again at once.
RotationSound == RotatedWhenDue /\ OncePerPeriod

=============================================================================
