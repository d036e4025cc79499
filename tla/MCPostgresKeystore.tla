------------------------- MODULE MCPostgresKeystore -------------------------
(* Instances of PostgresKeystore for TLC.                                  *)
EXTENDS PostgresKeystore, TLC

Symmetry == Permutations(Clients) \cup Permutations(Tenants)

=============================================================================
