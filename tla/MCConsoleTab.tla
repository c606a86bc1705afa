---------------------------- MODULE MCConsoleTab ----------------------------
(* Instances of ConsoleTab and FunctionForm for TLC.  The two share no state,
   so nothing is lost when a behaviour moves only one of them. *)
EXTENDS ConsoleTab, FunctionForm, TLC

CONSTANTS r1, j1, p1, p2, m1, m2, k1

BothUntouched == Init /\ FormInit

TabSteps == FormInit /\ Next /\ UNCHANGED formVars
FormSteps == Init /\ FillForm /\ UNCHANGED vars

TabAndForm == BothUntouched /\ [][TabSteps \/ FormSteps]_<<vars, formVars>>
=============================================================================
