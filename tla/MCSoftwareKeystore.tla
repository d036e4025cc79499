------------------------- MODULE MCSoftwareKeystore -------------------------
(* Instances of SoftwareKeystore for TLC.                                  *)
EXTENDS SoftwareKeystore, TLC

\* Keys and callers are interchangeable; tenants too.
Symmetry == Permutations(KeyIds) \cup Permutations(Clients)
                \cup Permutations(Tenants)

=============================================================================
