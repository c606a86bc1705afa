---------------------------- MODULE MCPulsarRPC ----------------------------
(* Instances of PulsarRPC for TLC. *)
EXTENDS PulsarRPC, TLC

CONSTANTS m1, m2, r1, r2

OneManager  == [r \in Req |-> m1]
TwoManagers == r1 :> m1 @@ r2 :> m2

(* Calls of one manager are interchangeable. *)
Symmetry == Permutations(Req)
=============================================================================
