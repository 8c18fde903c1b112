-------------------------- MODULE MCThreadMigration --------------------------
(* ThreadMigration on small instances.                                      *)
EXTENDS ThreadMigration, TLC
Symmetry == Permutations(Leases)
=============================================================================
