------------------------------ MODULE MCMigration ------------------------------
(* Instances of Migration for TLC.                                          *)
EXTENDS Migration, TLC

CONSTANTS u1, u2, p1, p2
Symmetry == Permutations(Units) \cup Permutations(Sessions)
=============================================================================
