---------------------------- MODULE MCLifecycle ----------------------------
(***************************************************************************)
(* Bounds for Lifecycle: two checks, and a clock long enough for batches   *)
(* that overrun several slots of two units each and catch up again.        *)
(***************************************************************************)
EXTENDS Lifecycle

CONSTANTS cpu, disk

=============================================================================
