--------------------------- MODULE MCAgentRuntime ---------------------------
(* Instances of AgentRuntime for TLC. *)
EXTENDS AgentRuntime, TLC

CONSTANTS m1, m2, m3, u1, u2, o1, o2, t1, t2, empty

(* Two messages of one user, and one of another. *)
Users == m1 :> u1 @@ m2 :> u1 @@ m3 :> u2
(* An output is JSON; one text is the same JSON, the other beyond repair. *)
Repairs == o1 :> o1 @@ o2 :> o2 @@ t1 :> o1 @@ t2 :> empty
(* The script depends on the message: it exchanges two values for m3. *)
Scripts == [m \in Msg |->
  IF m = m3 THEN o1 :> o2 @@ o2 :> o1 @@ empty :> empty ELSE [j \in Json |-> j]]
Symmetry == Permutations({m1, m2})
=============================================================================
