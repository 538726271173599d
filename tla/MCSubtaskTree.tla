---------------------------- MODULE MCSubtaskTree ----------------------------
(* Instances of SubtaskTree for TLC. *)
EXTENDS SubtaskTree, TLC

CONSTANTS p1, w1, w2

Symmetry == Permutations(Workspaces)
=============================================================================
