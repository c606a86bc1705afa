--------------------------- MODULE MCCliMessaging ---------------------------
(* Instances of CliMessaging for TLC. *)
EXTENDS CliMessaging

CONSTANTS c1, c2, p1, r1
=============================================================================
