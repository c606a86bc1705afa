---------------------------- MODULE ContextStore ----------------------------
(***************************************************************************)
(* What "ascli context" offers its user (src/cli/README.md:12-36): a store *)
(* of named contexts, one of which may be current, changed atomically.     *)
(***************************************************************************)
CONSTANTS Name,   \* the names of contexts
          NoName  \* the empty string: no current context

VARIABLES contexts, current

vars == <<contexts, current>>

Init == contexts = {} /\ current = NoName

Create(n) == /\ n \notin contexts
             /\ contexts' = contexts \union {n}
             /\ current' = IF current = NoName THEN n ELSE current

Use(n) == /\ n \in contexts
          /\ current' = n
          /\ UNCHANGED contexts

Delete(n) == /\ n \in contexts
             /\ n # current
             /\ contexts' = contexts \ {n}
             /\ UNCHANGED current

Next == \E n \in Name : Create(n) \/ Use(n) \/ Delete(n)

Spec == Init /\ [][Next]_vars
=============================================================================
