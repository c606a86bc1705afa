------------------------- MODULE MCAgentReconciler -------------------------
(* Instances of AgentReconciler for TLC, which also evaluates what AgentNames
   says of the names up to MaxName characters. *)
EXTENDS AgentReconciler, AgentNames
CONSTANTS a1, a2, underscore, dot, dash, x, nine

ASSUME NamesCheck == NamesNormalized
ASSUME ReferencesCheck == ReferencesParsed
=============================================================================
