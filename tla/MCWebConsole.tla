---------------------------- MODULE MCWebConsole ----------------------------
(* Instances of WebConsole for TLC. *)
EXTENDS WebConsole, TLC

CONSTANTS t1, t2, f1, f2, a1, p1, p2

Symmetry == Permutations(Tab) \union Permutations(Package)
=============================================================================
