--------------------------- MODULE MCCliContexts ---------------------------
(* Instances of CliContexts for TLC. *)
EXTENDS CliContexts, TLC

CONSTANTS p1, p2, p3

Symmetry == Permutations(Proc)
=============================================================================
