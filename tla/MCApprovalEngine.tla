-------------------------- MODULE MCApprovalEngine --------------------------
(* Instances of ApprovalEngine for TLC.                                    *)
EXTENDS ApprovalEngine, TLC

CONSTANTS u1, u2, u3, u4, t1, t2, k1, k2

\* An operator and a manager of tenant t1, an administrator bound to no
\* tenant, and a security officer of tenant t2.
MCRoleOf == u1 :> "Operator" @@ u2 :> "Manager" @@ u3 :> "Admin"
                @@ u4 :> "SecurityOfficer"
MCTenantOf == u1 :> t1 @@ u2 :> t1 @@ u3 :> Unbound @@ u4 :> t2
MCOwnerOf == k1 :> t1 @@ k2 :> t2

\* Readings on and just past the deadlines of Admin (4 h) and Double (24 h).
MCInstants == {0, 4, 5, 24, 25}

\* Two approvers of the two kinds a Manager request may meet.
MCRoleOfOne == u1 :> "User" @@ u2 :> "Admin" @@ u3 :> "SecurityOfficer"
MCTenantOfOne == [u \in {u1, u2, u3} |-> t1]
MCOwnerOfOne == k1 :> t1

Symmetry == Permutations(RequestIds)

=============================================================================
