----------------------------- MODULE MCRecovery ----------------------------
(* Small instances of RolloutRecovery: the groups are interchangeable.     *)
EXTENDS RolloutRecovery, TLC

Symmetry == Permutations(Groups)
=============================================================================
