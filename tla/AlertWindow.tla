---------------------------- MODULE AlertWindow ----------------------------
(***************************************************************************)
(* What AlertPolicy (src/core/policies.py) promises the executor, without  *)
(* its clocks and dictionaries: each fingerprint has a window, open from   *)
(* a granted dispatch until dedupe_window_seconds later, and remembers     *)
(* whether an alert repeated since the last alert that met a closed one.   *)
(* AlertPolicy implements this specification, CheckExecutor calls it.      *)
(***************************************************************************)
CONSTANT Fingerprint  \* metric_id:evaluator_type:severity

VARIABLES
  open,      \* the fingerprints whose window is open
  repeating  \* the fingerprints with suppressed alerts left to report

vars == <<open, repeating>>

TypeOK == open \subseteq Fingerprint /\ repeating \subseteq Fingerprint

Init == open = {} /\ repeating = {}

\* should_dispatch returns False and counts the alert.
Suppress(f) ==
  /\ f \in open
  /\ repeating' = repeating \cup {f}
  /\ UNCHANGED open

\* The first alert after a window in which alerts repeated: should_dispatch
\* takes the count, then raises while writing it into the immutable event.
Break(f) ==
  /\ f \in repeating \ open
  /\ repeating' = repeating \ {f}
  /\ UNCHANGED open

\* should_dispatch returns True, and opens the window.
Grant(f) ==
  /\ f \notin repeating \cup open
  /\ open' = open \cup {f}
  /\ UNCHANGED repeating

\* Time, or a purge told to forget them, closes some windows, perhaps several at once.
Expire(S) ==
  /\ open' = open \ S
  /\ UNCHANGED repeating

Next ==
  \/ \E f \in Fingerprint : Suppress(f) \/ Break(f) \/ Grant(f)
  \/ \E S \in SUBSET Fingerprint : Expire(S)

Spec == Init /\ [][Next]_vars

=============================================================================
