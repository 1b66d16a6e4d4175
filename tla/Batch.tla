------------------------------- MODULE Batch -------------------------------
(***************************************************************************)
(* What Executor.execute_batch promises to the Scheduler that awaits it:   *)
(* all checks of the configuration run at once, each of them ends, the     *)
(* next batch starts after the last of them, and none starts once the      *)
(* batch's task has been cancelled.  CheckExecutor implements this module, *)
(* Lifecycle relies on it.                                                 *)
(***************************************************************************)
CONSTANT Check  \* the checks of the configuration

VARIABLES
  running,   \* the checks of the current batch that have not ended
  cancelled  \* the awaiting task has been cancelled

vars == <<running, cancelled>>

Init ==
  /\ running = {}
  /\ cancelled = FALSE

\* execute_batch gathers one task per check.
Start ==
  /\ ~cancelled
  /\ running = {}
  /\ running' = Check
  /\ UNCHANGED cancelled

\* Some of the checks end.
End ==
  /\ running' \in (SUBSET running) \ {running}
  /\ UNCHANGED cancelled

\* gather is cancelled; checks that wait end with it.
Cancel ==
  /\ ~cancelled
  /\ cancelled' = TRUE
  /\ running' \in SUBSET running

Next == Start \/ End \/ Cancel

\* Every check ends, by itself or by its timer.
Spec == Init /\ [][Next]_vars /\ WF_vars(End)

=============================================================================
