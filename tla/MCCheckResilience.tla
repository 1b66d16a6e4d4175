------------------------- MODULE MCCheckResilience -------------------------
(***************************************************************************)
(* Bounds for CheckResilience.  Four executions share the object: enough   *)
(* for two of them to run, and one to wait, while a fourth is refused.     *)
(***************************************************************************)
EXTENDS CheckResilience

CONSTANTS c1, c2, c3, c4

MCCaller == {c1, c2, c3, c4}
MCThreshold == 2

=============================================================================
