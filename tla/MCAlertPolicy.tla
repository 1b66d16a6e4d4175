--------------------------- MODULE MCAlertPolicy ---------------------------
(***************************************************************************)
(* Bounds for AlertPolicy: two fingerprints with windows of 2 and 3 units, *)
(* a clock long enough for three windows, and purges of three ages: 0 cuts *)
(* both windows short, 1 only the longer, and 2 none, though just so.      *)
(***************************************************************************)
EXTENDS AlertPolicy, TLC

CONSTANTS high, critical

MCFingerprint == {high, critical}
MCDedupe == (high :> 2) @@ (critical :> 3)

=============================================================================
