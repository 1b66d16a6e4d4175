--------------------------- MODULE MCSlackHandler ---------------------------
(***************************************************************************)
(* Bounds for SlackHandler: three alerts, one of them without a webhook,   *)
(* and a breaker that opens within the attempts of a single dispatch.      *)
(***************************************************************************)
EXTENDS SlackHandler

CONSTANTS high, critical, unset

=============================================================================
